---- MODULE Spec2Model ----
(***************************************************************************)
(* Model of the spatial-data utility layer of EcohydroLib                  *)
(* (src/ecohydrolib/spatialdata/utils.py).                                 *)
(*                                                                         *)
(* Coordinates are whole degrees.  A string produced by a "%d" format is a *)
(* sequence of one-character strings.  The file system is the content of   *)
(* each path of the output directory.  Every operation records what it was *)
(* called with and what it answered in the variable `call`.                *)
(***************************************************************************)
EXTENDS Integers, Sequences, FiniteSets, TLC

VARIABLES
    fs,           \* path -> content of the file at that path ("absent" if none)
    dirWritable,  \* os.access(outputDir, os.W_OK) for the project directory
    bbox,         \* the bounding-box dict the caller holds (mutated in place by bufferBoundingBox)
    nbuf,         \* number of in-place buffer operations applied to bbox
    call,         \* the last operation: its name, arguments, outcome
    shpData,      \* the OGR data source stored in <LayerName>.shp: its layers (<<>> if it cannot be opened)
    pc,           \* invocation in progress -> the statement it has reached
    metadata      \* the entries of the project's metadata store: <<section, key>> pairs

vars == <<fs, dirWritable, bbox, nbuf, call, shpData, pc, metadata>>

(***************************************************************************)
(* Bounds of the model.                                                    *)
(***************************************************************************)
\* longitudes given to getUTMZoneFromCoordinates are -180-LonSlack .. 180+LonSlack
LonSlack == 3
\* zone numbers given directly to getEPSGStringForUTMZone are 0 .. MaxZoneArg
MaxZoneArg == 61
\* box corners lie on the WGS84 limits, Edge degrees outside them, and at 0;
\* buffers are multiples of Edge
Edge == 5
\* number of in-place buffer operations applied to one box
MaxBuffers == 2

(***************************************************************************)
(* Python's "%d" % n and its inverse int(s).                               *)
(***************************************************************************)
DigitChars == <<"0", "1", "2", "3", "4", "5", "6", "7", "8", "9">>

RECURSIVE FormatNat(_)
FormatNat(n) ==
    IF n < 10 THEN <<DigitChars[n + 1]>>
    ELSE FormatNat(n \div 10) \o <<DigitChars[(n % 10) + 1]>>

FormatD(n) == IF n < 0 THEN <<"-">> \o FormatNat(-n) ELSE FormatNat(n)

DigitValue(c) == CHOOSE d \in 0..9 : DigitChars[d + 1] = c

IsDigit(c) == \E d \in 0..9 : DigitChars[d + 1] = c

RECURSIVE ParseNat(_)
ParseNat(s) ==
    IF Len(s) = 0 THEN 0
    ELSE 10 * ParseNat(SubSeq(s, 1, Len(s) - 1)) + DigitValue(s[Len(s)])

EPSGPrefix == <<"E", "P", "S", "G", ":">>

\* the integer code of a string of the pattern ^EPSG:\d+$, or -1 for any other string
EPSGCodeOf(s) ==
    IF /\ Len(s) > Len(EPSGPrefix)
       /\ SubSeq(s, 1, Len(EPSGPrefix)) = EPSGPrefix
       /\ \A i \in (Len(EPSGPrefix) + 1)..Len(s) : IsDigit(s[i])
    THEN ParseNat(SubSeq(s, Len(EPSGPrefix) + 1, Len(s)))
    ELSE -1

(***************************************************************************)
(* Coordinate transform: UTM zone inference.                               *)
(***************************************************************************)
getEPSGStringForUTMZone(zone, isNorth) ==
    LET epsg == IF isNorth THEN 32600 + zone ELSE 32700 + zone
    IN  EPSGPrefix \o FormatD(epsg)

\* the hemisphere test written latitude >= 0
getUTMZoneFromCoordinates_EquatorNorth(longitude, latitude) ==
    LET zone == (((longitude + 180) \div 6) + 1) % 60
        isNorth == IF latitude >= 0 THEN TRUE ELSE FALSE
    IN  <<zone, isNorth>>

\* math.floor((longitude + 180)/6) is \div on whole degrees
getUTMZoneFromCoordinates(longitude, latitude) ==
    LET zone == (((longitude + 180) \div 6) + 1) % 60
        isNorth == IF latitude > 0 THEN TRUE ELSE FALSE
    IN  <<zone, isNorth>>

LongitudeArgs == (-180 - LonSlack)..(180 + LonSlack)
LatitudeArgs == {-90, -1, 0, 1, 90}

NoCall == [op |-> "none"]

InitUTM ==
    /\ fs = <<>>
    /\ dirWritable = TRUE
    /\ bbox = <<>>
    /\ nbuf = 0
    /\ call = NoCall
    /\ pc = <<>>
    /\ metadata = {}
    /\ shpData = <<>>

CallGetUTMZone ==
    \E lon \in LongitudeArgs, lat \in LatitudeArgs :
        /\ call' = [op |-> "getUTMZoneFromCoordinates",
                    args |-> <<lon, lat>>,
                    ret |-> getUTMZoneFromCoordinates(lon, lat)]
        /\ UNCHANGED <<pc, metadata, fs, dirWritable, bbox, nbuf, shpData>>

\* epsgForUtmZone(*utmZoneFor(lon, lat)): the zone tuple just returned is passed on
CallGetEPSGOfZone ==
    /\ call.op = "getUTMZoneFromCoordinates"
    /\ call' = [op |-> "getEPSGStringForUTMZone",
                args |-> call.ret,
                from |-> call.args,
                ret |-> getEPSGStringForUTMZone(call.ret[1], call.ret[2])]
    /\ UNCHANGED <<pc, metadata, fs, dirWritable, bbox, nbuf, shpData>>

CallGetEPSG ==
    \E zone \in 0..MaxZoneArg, isNorth \in BOOLEAN :
        /\ call' = [op |-> "getEPSGStringForUTMZone",
                    args |-> <<zone, isNorth>>,
                    from |-> <<>>,
                    ret |-> getEPSGStringForUTMZone(zone, isNorth)]
        /\ UNCHANGED <<pc, metadata, fs, dirWritable, bbox, nbuf, shpData>>

NextUTM == CallGetUTMZone \/ CallGetEPSGOfZone \/ CallGetEPSG

SpecUTM == InitUTM /\ [][NextUTM]_vars

ValidUTMCodes == (32601..32660) \cup (32701..32760)

\* C8: for every longitude in [-180, 180] and any latitude,
\* getUTMZoneFromCoordinates returns a zone number in 1..60, and
\* getEPSGStringForUTMZone applied to that result is a valid WGS84 UTM code
\* (EPSG:32601..32660 or EPSG:32701..32760).
C8_ZoneInRangeAndCodeValid ==
    /\ (call.op = "getUTMZoneFromCoordinates" /\ call.args[1] \in -180..180)
           => call.ret[1] \in 1..60
    /\ (call.op = "getEPSGStringForUTMZone" /\ call.from # <<>> /\ call.from[1] \in -180..180)
           => EPSGCodeOf(call.ret) \in ValidUTMCodes

\* C9: isNorth is true exactly when latitude > 0 (latitude 0 and negative
\* latitudes are southern), and getEPSGStringForUTMZone(zone, isNorth) is
\* "EPSG:" followed by 32600+zone when isNorth and by 32700+zone otherwise.
C9_HemisphereAndCode ==
    /\ call.op = "getUTMZoneFromCoordinates"
           => (call.ret[2] = TRUE <=> call.args[2] > 0)
    /\ call.op = "getEPSGStringForUTMZone"
           => /\ SubSeq(call.ret, 1, 5) = <<"E", "P", "S", "G", ":">>
              /\ EPSGCodeOf(call.ret) =
                    (IF call.args[2] THEN 32600 ELSE 32700) + call.args[1]

\* a zone computed at latitude 0 is southern and its code is in the 327xx range
C9_Witness ==
    /\ call.op = "getEPSGStringForUTMZone"
    /\ call.from # <<>>
    /\ call.from[2] = 0
    /\ call.args[2] = FALSE
    /\ EPSGCodeOf(call.ret) = 32718

(***************************************************************************)
(* Bounding Box Engine.                                                    *)
(***************************************************************************)
WGS84_EPSG_STR == "EPSG:4326"

\* containment that excludes the edges of the box
isCoordinatePairInBoundingBox_Exclusive(b, coordinates) ==
    IF b.srs # "EPSG:4326" THEN [result |-> "AssertionError", ret |-> FALSE]
    ELSE LET lon == coordinates[1]
             lat == coordinates[2]
         IN  IF (lon <= b.minX) \/ (lon >= b.maxX)
                 THEN [result |-> "ok", ret |-> FALSE]
             ELSE IF (lat <= b.minY) \/ (lat >= b.maxY)
                 THEN [result |-> "ok", ret |-> FALSE]
             ELSE [result |-> "ok", ret |-> TRUE]

isCoordinatePairInBoundingBox(b, coordinates) ==
    IF b.srs # "EPSG:4326" THEN [result |-> "AssertionError", ret |-> FALSE]
    ELSE LET lon == coordinates[1]
             lat == coordinates[2]
         IN  IF (lon < b.minX) \/ (lon > b.maxX)
                 THEN [result |-> "ok", ret |-> FALSE]
             ELSE IF (lat < b.minY) \/ (lat > b.maxY)
                 THEN [result |-> "ok", ret |-> FALSE]
             ELSE [result |-> "ok", ret |-> TRUE]

\* ( bbox['maxX'] - bbox['minX'] ) / 2 on whole numbers is floor division
calculateBoundingBoxCenter(b) ==
    LET x_diff == (b.maxX - b.minX) \div 2
        y_diff == (b.maxY - b.minY) \div 2
        longitude == b.minX + x_diff
        latitude == b.minY + y_diff
    IN  <<longitude, latitude>>

\* 1000 * sin(deg degrees) for deg in -90..90 (Bhaskara's rational approximation)
Sin1000(deg) ==
    LET a == IF deg < 0 THEN -deg ELSE deg
        p == a * (180 - a)
        v == (4000 * p) \div (40500 - p)
    IN  IF deg < 0 THEN -v ELSE v

\* the signed longitude extent of the edge from lon1 to lon2, which the geodesic
\* polygon follows the short way round: a value in -179..180
LonExtent(lon1, lon2) ==
    LET d == (lon2 - lon1) % 360
    IN  IF d > 180 THEN d - 360 ELSE d

\* R^2 * (pi/180) / 1000 in square kilometres, R = 6371 km
AreaScale == 708

\* PolygonArea.Area over the corners SW, SE, NE, NW: the signed area (positive
\* counter-clockwise) on the sphere, in square kilometres
calculateBoundingBoxAreaSqMeters(b) ==
    LonExtent(b.minX, b.maxX) * (Sin1000(b.maxY) - Sin1000(b.minY)) * AreaScale

\* tiling as soon as the area reaches the threshold (area < threshold)
tileBoundingBox_StrictThreshold(b, threshold) ==
    IF b.srs # "EPSG:4326" THEN [result |-> "AssertionError", ret |-> <<>>]
    ELSE LET area == calculateBoundingBoxAreaSqMeters(b)
         IN  IF area < threshold
                 THEN [result |-> "ok", ret |-> <<b>>]
             ELSE IF threshold < 0
                 THEN [result |-> "ValueError", ret |-> <<>>]
             ELSE IF b.minY < b.maxY
                 THEN [result |-> "NameError", ret |-> <<>>]
             ELSE [result |-> "ok", ret |-> <<>>]

\* The names geod, NORTH and EAST used by the tiling loop are bound nowhere in
\* the module (geod is a local of calculateBoundingBoxAreaSqMeters), so the
\* first statement of the outer loop raises NameError.
tileBoundingBox(b, threshold) ==
    IF b.srs # "EPSG:4326" THEN [result |-> "AssertionError", ret |-> <<>>]
    ELSE LET area == calculateBoundingBoxAreaSqMeters(b)
         IN  IF area <= threshold
                 THEN [result |-> "ok", ret |-> <<b>>]
             ELSE IF threshold < 0
                 THEN [result |-> "ValueError", ret |-> <<>>]
             ELSE IF b.minY < b.maxY
                 THEN [result |-> "NameError", ret |-> <<>>]
             ELSE [result |-> "ok", ret |-> <<>>]

\* the southern clamp written with the northern limit (minY = 90.0)
bufferBoundingBox_ClampsSouthToNorth(b, buffer) ==
    IF buffer > 0
    THEN LET minX0 == b.minX - buffer
             minY0 == b.minY - buffer
             maxX0 == b.maxX + buffer
             maxY0 == b.maxY + buffer
             minX == IF minX0 < -180 THEN 360 + minX0 ELSE minX0
             minY == IF minY0 < -90 THEN 90 ELSE minY0
             maxX == IF maxX0 > 180 THEN -360 + maxX0 ELSE maxX0
             maxY == IF minY > 90 THEN 90 ELSE maxY0
         IN  [b EXCEPT !.minX = minX, !.minY = minY, !.maxX = maxX, !.maxY = maxY]
    ELSE b

\* the wrap correction applied for a buffer of 0 as well (buffer >= 0.0)
bufferBoundingBox_CorrectsAtZero(b, buffer) ==
    IF buffer >= 0
    THEN LET minX0 == b.minX - buffer
             minY0 == b.minY - buffer
             maxX0 == b.maxX + buffer
             maxY0 == b.maxY + buffer
             minX == IF minX0 < -180 THEN 360 + minX0 ELSE minX0
             minY == IF minY0 < -90 THEN -90 ELSE minY0
             maxX == IF maxX0 > 180 THEN -360 + maxX0 ELSE maxX0
             maxY == IF minY > 90 THEN 90 ELSE maxY0
         IN  [b EXCEPT !.minX = minX, !.minY = minY, !.maxX = maxX, !.maxY = maxY]
    ELSE b

bufferBoundingBox(b, buffer) ==
    IF buffer > 0
    THEN LET minX0 == b.minX - buffer
             minY0 == b.minY - buffer
             maxX0 == b.maxX + buffer
             maxY0 == b.maxY + buffer
             minX == IF minX0 < -180 THEN 360 + minX0 ELSE minX0
             minY == IF minY0 < -90 THEN -90 ELSE minY0
             maxX == IF maxX0 > 180 THEN -360 + maxX0 ELSE maxX0
             maxY == IF minY > 90 THEN 90 ELSE maxY0
         IN  [b EXCEPT !.minX = minX, !.minY = minY, !.maxX = maxX, !.maxY = maxY]
    ELSE b

LonArgs == {-180 - Edge, -180, 0, 180, 180 + Edge}
LatArgs == {-90 - Edge, -90, 0, 90, 90 + Edge}
SrsArgs == {"EPSG:4326", "EPSG:32618"}
BufferArgs == {-Edge, 0, Edge, 2 * Edge}
PointArgs == {<<x, y>> : x \in {-180, 0}, y \in {0, 90}}

\* bboxFromString: four numbers and srs 'EPSG:4326'; boxes in another reference
\* system come from the callers of the layer
BoxArgs ==
    [minX : LonArgs, minY : LatArgs, maxX : LonArgs, maxY : LatArgs, srs : SrsArgs]

LatitudesInRange(b) == b.minY \in -90..90 /\ b.maxY \in -90..90

ThresholdArgs(b) ==
    {-1, 0, 1000000} \cup
    (IF b.srs = "EPSG:4326" /\ LatitudesInRange(b)
        THEN {calculateBoundingBoxAreaSqMeters(b)} ELSE {})

InitBBox ==
    /\ fs = <<>>
    /\ dirWritable = TRUE
    /\ bbox \in BoxArgs
    /\ nbuf = 0
    /\ call = NoCall
    /\ pc = <<>>
    /\ metadata = {}
    /\ shpData = <<>>

CallCenter ==
    /\ call' = [op |-> "calculateBoundingBoxCenter",
                args |-> <<bbox>>,
                ret |-> calculateBoundingBoxCenter(bbox)]
    /\ UNCHANGED <<pc, metadata, fs, dirWritable, bbox, nbuf, shpData>>

\* contains(bbox, center(bbox)): the point just returned is passed on
CallContainsCenter ==
    /\ call.op = "calculateBoundingBoxCenter"
    /\ LET r == isCoordinatePairInBoundingBox(bbox, call.ret)
       IN  call' = [op |-> "isCoordinatePairInBoundingBox",
                    args |-> <<bbox, call.ret>>,
                    ofCenter |-> TRUE,
                    result |-> r.result,
                    ret |-> r.ret]
    /\ UNCHANGED <<pc, metadata, fs, dirWritable, bbox, nbuf, shpData>>

CallContains ==
    \E pt \in PointArgs :
        /\ LET r == isCoordinatePairInBoundingBox(bbox, pt)
           IN  call' = [op |-> "isCoordinatePairInBoundingBox",
                        args |-> <<bbox, pt>>,
                        ofCenter |-> FALSE,
                        result |-> r.result,
                        ret |-> r.ret]
        /\ UNCHANGED <<pc, metadata, fs, dirWritable, bbox, nbuf, shpData>>

CallBuffer ==
    \E buffer \in BufferArgs :
        /\ nbuf < MaxBuffers
        /\ bbox' = bufferBoundingBox(bbox, buffer)
        /\ nbuf' = nbuf + 1
        /\ call' = [op |-> "bufferBoundingBox", args |-> <<bbox, buffer>>]
        /\ UNCHANGED <<pc, metadata, fs, dirWritable, shpData>>

CallTile ==
    \E threshold \in ThresholdArgs(bbox) :
        /\ LatitudesInRange(bbox)
        /\ LET r == tileBoundingBox(bbox, threshold)
           IN  call' = [op |-> "tileBoundingBox",
                        args |-> <<bbox, threshold>>,
                        result |-> r.result,
                        ret |-> r.ret]
        /\ UNCHANGED <<pc, metadata, fs, dirWritable, bbox, nbuf, shpData>>

NextBBox ==
    CallCenter \/ CallContainsCenter \/ CallContains \/ CallBuffer \/ CallTile

SpecBBox == InitBBox /\ [][NextBBox]_vars

\* C5: for every WGS84 box with minX <= maxX and minY <= maxY,
\* isCoordinatePairInBoundingBox(bbox, calculateBoundingBoxCenter(bbox)) is
\* true, degenerate boxes (minX = maxX or minY = maxY) included.
C5_CenterIsContained ==
    (/\ call.op = "isCoordinatePairInBoundingBox"
     /\ call.ofCenter
     /\ call.args[1].srs = "EPSG:4326"
     /\ call.args[1].minX <= call.args[1].maxX
     /\ call.args[1].minY <= call.args[1].maxY)
        => (call.result = "ok" /\ call.ret = TRUE)

\* the centre of a box that is a single point was tested and found inside
C5_Witness ==
    /\ call.op = "isCoordinatePairInBoundingBox"
    /\ call.ofCenter
    /\ call.args[1].srs = "EPSG:4326"
    /\ call.args[1].minX = call.args[1].maxX
    /\ call.args[1].minY = call.args[1].maxY
    /\ call.ret = TRUE

\* C6: bufferBoundingBox(bbox, 0) leaves all five fields of the box unchanged,
\* also for boxes whose coordinates lie outside [-180,180] x [-90,90].
C6_ZeroBufferIsIdentity ==
    (call.op = "bufferBoundingBox" /\ call.args[2] = 0)
        => /\ bbox.minX = call.args[1].minX
           /\ bbox.minY = call.args[1].minY
           /\ bbox.maxX = call.args[1].maxX
           /\ bbox.maxY = call.args[1].maxY
           /\ bbox.srs = call.args[1].srs

\* a box lying outside the WGS84 limits on every side was buffered by 0
C6_Witness ==
    /\ call.op = "bufferBoundingBox"
    /\ call.args[2] = 0
    /\ call.args[1].minX < -180
    /\ call.args[1].maxX > 180
    /\ call.args[1].minY < -90
    /\ call.args[1].maxY > 90
    /\ bbox = call.args[1]

\* C7: tileBoundingBox(bbox, threshold) with threshold >= area(bbox) returns a
\* list of exactly one element, the input box with all fields unchanged.
C7_NoTilingUnderThreshold ==
    (/\ call.op = "tileBoundingBox"
     /\ call.args[1].srs = "EPSG:4326"
     /\ call.args[2] >= calculateBoundingBoxAreaSqMeters(call.args[1]))
        => /\ call.result = "ok"
           /\ Len(call.ret) = 1
           /\ call.ret[1] = call.args[1]

\* a box of positive area was tiled with a threshold equal to its area
C7_Witness ==
    /\ call.op = "tileBoundingBox"
    /\ call.args[1].srs = "EPSG:4326"
    /\ calculateBoundingBoxAreaSqMeters(call.args[1]) > 0
    /\ call.args[2] = calculateBoundingBoxAreaSqMeters(call.args[1])
    /\ call.ret = <<call.args[1]>>

\* C10: for every WGS84 box with -90 <= minY <= maxY <= 90 and every buffer
\* >= 0, after bufferBoundingBox the box has minY >= -90 and maxY <= 90.
C10_LatitudeClamped ==
    (/\ call.op = "bufferBoundingBox"
     /\ call.args[1].srs = "EPSG:4326"
     /\ -180 <= call.args[1].minX
     /\ call.args[1].minX <= call.args[1].maxX
     /\ call.args[1].maxX <= 180
     /\ -90 <= call.args[1].minY
     /\ call.args[1].minY <= call.args[1].maxY
     /\ call.args[1].maxY <= 90
     /\ call.args[2] >= 0)
        => (bbox.minY >= -90 /\ bbox.maxY <= 90)

\* a WGS84 box inside [-180,180] x [-90,90] with minX <= maxX and minY <= maxY
IsOrderedWGS84Box(b) ==
    /\ b.srs = "EPSG:4326"
    /\ -180 <= b.minX /\ b.minX <= b.maxX /\ b.maxX <= 180
    /\ -90 <= b.minY /\ b.minY <= b.maxY /\ b.maxY <= 90

\* C11 (as stated): for every box with minX <= maxX and minY <= maxY inside
\* [-180,180] x [-90,90] and every buffer >= 0, the box after bufferBoundingBox
\* still satisfies minX <= maxX and minY <= maxY.
C11_BufferKeepsOrder ==
    (call.op = "bufferBoundingBox" /\ IsOrderedWGS84Box(call.args[1]) /\ call.args[2] >= 0)
        => (bbox.minX <= bbox.maxX /\ bbox.minY <= bbox.maxY)

\* C11 (amended): for such a box and buffer, minY <= maxY holds afterwards, and
\* minX <= maxX holds afterwards whenever no longitude is wrapped, that is
\* whenever minX - buffer >= -180 and maxX + buffer <= 180.
C11_BufferKeepsOrderUnlessWrapped ==
    (call.op = "bufferBoundingBox" /\ IsOrderedWGS84Box(call.args[1]) /\ call.args[2] >= 0)
        => /\ bbox.minY <= bbox.maxY
           /\ (/\ call.args[1].minX - call.args[2] >= -180
               /\ call.args[1].maxX + call.args[2] <= 180) => bbox.minX <= bbox.maxX

\* a box on the southern limit was widened by a positive buffer without wrapping
\* and is still ordered
C11_Witness ==
    /\ call.op = "bufferBoundingBox"
    /\ IsOrderedWGS84Box(call.args[1])
    /\ call.args[2] > 0
    /\ call.args[1].minY = -90
    /\ call.args[1].minX - call.args[2] >= -180
    /\ call.args[1].maxX + call.args[2] <= 180
    /\ bbox.minX < call.args[1].minX
    /\ bbox.maxX > call.args[1].maxX
    /\ bbox.minY = -90
    /\ bbox.minY <= bbox.maxY

\* C12: tileBoundingBox(bbox, threshold) with area(bbox) > threshold > 0
\* returns, without failing, a non-empty list of tiles, each with srs
\* 'EPSG:4326', the first one starting at the box's south-west corner, whose
\* union covers the box: every point contained in bbox is contained in at
\* least one tile.
C12_TilesCoverBox ==
    (/\ call.op = "tileBoundingBox"
     /\ call.args[1].srs = "EPSG:4326"
     /\ call.args[2] > 0
     /\ calculateBoundingBoxAreaSqMeters(call.args[1]) > call.args[2])
        => /\ call.result = "ok"
           /\ Len(call.ret) >= 1
           /\ \A i \in 1..Len(call.ret) : call.ret[i].srs = "EPSG:4326"
           /\ call.ret[1].minX = call.args[1].minX
           /\ call.ret[1].minY = call.args[1].minY
           /\ \A x \in call.args[1].minX..call.args[1].maxX,
                 y \in call.args[1].minY..call.args[1].maxY :
                   \E i \in 1..Len(call.ret) :
                       isCoordinatePairInBoundingBox(call.ret[i], <<x, y>>).ret

\* C29: tileBoundingBox terminates for every valid WGS84 box and every
\* threshold >= 0 by running its loops to their exit conditions: each
\* iteration of the northward and of the eastward loop completes, and the
\* function returns its list once minLat >= maxY.
C29_TilingLoopsRunToExit ==
    (/\ call.op = "tileBoundingBox"
     /\ call.args[1].srs = "EPSG:4326"
     /\ IsOrderedWGS84Box(call.args[1])
     /\ call.args[2] >= 0)
        => call.result = "ok"

(***************************************************************************)
(* File system of the project directory and the external GDAL/OGR tools.   *)
(*                                                                         *)
(* A path is the sequence of the dot-separated components of a file name   *)
(* in the project directory.  A primary file is "absent", "old" (it was    *)
(* there before the first operation), "new" (written completely by an      *)
(* operation) or "partial" (left by a tool that failed while writing); a   *)
(* sidecar is "absent" or "present".  os.remove and the tools are taken to *)
(* succeed wherever the operating system's permissions are concerned: the  *)
(* only permission modelled is the one the code asks for with os.access.   *)
(***************************************************************************)
ProjectDir == "proj"
DirArgs == {"proj", "nodir"}

RasterName == <<"dem", "tif">>
LayerName == "gage"
SHP_EXT == <<"dbf", "prj", "shx">>
GTIFF_EXT == <<<<"tif", "aux", "xml">>>>

\* "%s.shp" % (layerName,)
ShpFilename(layerName) == <<layerName, "shp">>

\* os.path.splitext(path)[0]
SplitextStem(path) == IF Len(path) > 1 THEN SubSeq(path, 1, Len(path) - 1) ELSE path

Primaries == {RasterName, ShpFilename(LayerName)}
Sidecars ==
    {SplitextStem(RasterName) \o GTIFF_EXT[i] : i \in 1..Len(GTIFF_EXT)} \cup
    {SplitextStem(ShpFilename(LayerName)) \o <<SHP_EXT[i]>> : i \in 1..Len(SHP_EXT)}
ProjPaths == Primaries \cup Sidecars

\* the files an OGR shapefile data source consists of
ShapefileParts(shp) == {shp} \cup {SplitextStem(shp) \o <<SHP_EXT[i]>> : i \in 1..Len(SHP_EXT)}

IsDir(dir) == dir = ProjectDir

\* an existence test that takes a file left by a failed tool for no file
Exists_OnlyComplete(f, dir, name) ==
    IsDir(dir) /\ name \in DOMAIN f /\ f[name] \notin {"absent", "partial"}

\* os.path.exists(os.path.join(dir, name))
Exists(f, dir, name) == IsDir(dir) /\ name \in DOMAIN f /\ f[name] # "absent"

ContentAt(f, dir, name) == IF Exists(f, dir, name) THEN f[name] ELSE "absent"

\* the files `paths` written completely
Written(f, paths) ==
    [p \in DOMAIN f |->
        IF p \in paths THEN (IF p \in Primaries THEN "new" ELSE "present") ELSE f[p]]

Removed(f, path) == [p \in DOMAIN f |-> IF p = path THEN "absent" ELSE f[p]]

RASTER_RESAMPLE_METHOD ==
    {"near", "bilinear", "cubic", "cubicspline", "lanczos", "average", "mode"}

GDALOptions == {"PATH_OF_GDAL_WARP", "PATH_OF_GDAL_TRANSLATE", "PATH_OF_OGR2OGR"}
\* a configuration names, for each option, a path that is executable or is not
ConfigArgs == {[o \in GDALOptions |-> k] : k \in {"executable", "not_executable"}}

\* os.access(path, os.X_OK)
IsExecutable(cmdPath) == cmdPath = "executable"

\* what the external tool does once started: it exits 0 with its output
\* written, exits non-zero with nothing written, or exits non-zero (or is
\* killed) with part of the output at the final path
ToolOutcomes == {"ok", "fail", "partial"}

Outcome(f, result, ret, invoked, wrote) ==
    [fs |-> f, result |-> result, ret |-> ret, invoked |-> invoked, wrote |-> wrote,
     returnCode |-> "none"]

\* the outcome of an operation that ran its command with os.system
Ran(sys, result, ret) ==
    [fs |-> sys.fs, result |-> result, ret |-> ret, invoked |-> TRUE, wrote |-> sys.wrote,
     returnCode |-> sys.returnCode]

Raise(f, error) == Outcome(f, error, "None", FALSE, {})

\* os.system(command) for a command that writes `primary` and `sidecars`: the
\* new file system, the return code and the paths written.  A command whose
\* program is not executable is not started by the shell (return code 126).
System(f, cmdPath, primary, sidecars, outcome) ==
    IF ~IsExecutable(cmdPath) THEN [fs |-> f, returnCode |-> 126, wrote |-> {}]
    ELSE CASE outcome = "ok" ->
                [fs |-> Written(f, {primary} \cup sidecars), returnCode |-> 0,
                 wrote |-> {primary} \cup sidecars]
           [] outcome = "fail" ->
                [fs |-> f, returnCode |-> 1, wrote |-> {}]
           [] outcome = "partial" ->
                [fs |-> [f EXCEPT ![primary] = "partial"], returnCode |-> 1,
                 wrote |-> {primary}]

RasterKinds == {"raster", "unreadable", "junk"}

\* The outcome of getSpatialReferenceForRaster on a file that is a readable
\* raster, is not permission-readable, or is readable but no raster dataset
\* (gdal.Open returns None and epsgStr is never bound).
getSpatialReferenceForRaster(kind) ==
    CASE kind = "unreadable" -> "IOError_EACCES_input"
      [] kind = "junk" -> "UnboundLocalError"
      [] OTHER -> "ok"

\* _readImageGDAL: ds is None for a file gdal.Open cannot open
readImageGDAL(kind) == IF kind = "raster" THEN "ok" ELSE "AttributeError"

extractTileFromRasterByRasterExtent(f, dw, config, outputDir, extentKind, inKind, outRasterFilename, resampleMethod, outcome) ==
    IF resampleMethod \notin RASTER_RESAMPLE_METHOD THEN Raise(f, "AssertionError")
    ELSE IF ~IsExecutable(config["PATH_OF_GDAL_WARP"]) THEN Raise(f, "IOError_EACCES_cmd")
    ELSE IF ~IsDir(outputDir) THEN Raise(f, "IOError_ENOTDIR")
    ELSE IF ~dw THEN Raise(f, "IOError_EACCES_dir")
    ELSE IF ~Exists(f, outputDir, outRasterFilename)
         THEN IF readImageGDAL(extentKind) # "ok" THEN Raise(f, readImageGDAL(extentKind))
              ELSE IF readImageGDAL(inKind) # "ok" THEN Raise(f, readImageGDAL(inKind))
              ELSE LET sys == System(f, config["PATH_OF_GDAL_WARP"], outRasterFilename, {}, outcome)
                   IN  IF sys.returnCode # 0
                           THEN Ran(sys, "Exception_command_failed", "None")
                           ELSE Ran(sys, "ok", "None")
    ELSE Outcome(f, "ok", "None", FALSE, {})

\* gdal_translate -stats keeps the statistics it computes in <stem>.tif.aux.xml
StatsSidecar(rasterName) == {SplitextStem(rasterName) \o GTIFF_EXT[i] : i \in 1..Len(GTIFF_EXT)}

extractTileFromRaster(f, dw, config, outputDir, inKind, outRasterFilename, outcome) ==
    IF ~IsExecutable(config["PATH_OF_GDAL_TRANSLATE"]) THEN Raise(f, "IOError_EACCES_cmd")
    ELSE IF ~IsDir(outputDir) THEN Raise(f, "IOError_ENOTDIR")
    ELSE IF ~dw THEN Raise(f, "IOError_EACCES_dir")
    ELSE IF ~Exists(f, outputDir, outRasterFilename)
         THEN IF getSpatialReferenceForRaster(inKind) # "ok"
                  THEN Raise(f, getSpatialReferenceForRaster(inKind))
              ELSE LET sys == System(f, config["PATH_OF_GDAL_TRANSLATE"], outRasterFilename,
                                     StatsSidecar(outRasterFilename), outcome)
                   IN  IF sys.returnCode # 0
                           THEN Ran(sys, "Exception_command_failed", "None")
                           ELSE Ran(sys, "ok", "None")
    ELSE Outcome(f, "ok", "None", FALSE, {})

\* resampleRaster returning silently for an existing output before it tests
\* the resolution
resampleRaster_ExistsFirst(f, dw, config, outputDir, outRasterFilename, trX, trY, resampleMethod, outcome) ==
    IF ~IsExecutable(config["PATH_OF_GDAL_WARP"]) THEN Raise(f, "IOError_EACCES_cmd")
    ELSE IF ~IsDir(outputDir) THEN Raise(f, "IOError_ENOTDIR")
    ELSE IF ~dw THEN Raise(f, "IOError_EACCES_dir")
    ELSE IF Exists(f, outputDir, outRasterFilename) THEN Outcome(f, "ok", "None", FALSE, {})
    ELSE IF trX <= 0 THEN Raise(f, "ValueError_trX")
    ELSE IF trY <= 0 THEN Raise(f, "ValueError_trY")
    ELSE IF resampleMethod \notin RASTER_RESAMPLE_METHOD THEN Raise(f, "AssertionError")
    ELSE LET sys == System(f, config["PATH_OF_GDAL_WARP"], outRasterFilename, {}, outcome)
         IN  IF sys.returnCode # 0
                 THEN Ran(sys, "Exception_command_failed", "None")
                 ELSE Ran(sys, "ok", "None")

\* resampleRaster without its os.path.exists test
resampleRaster_AlwaysWarps(f, dw, config, outputDir, outRasterFilename, trX, trY, resampleMethod, outcome) ==
    IF ~IsExecutable(config["PATH_OF_GDAL_WARP"]) THEN Raise(f, "IOError_EACCES_cmd")
    ELSE IF ~IsDir(outputDir) THEN Raise(f, "IOError_ENOTDIR")
    ELSE IF ~dw THEN Raise(f, "IOError_EACCES_dir")
    ELSE IF trX <= 0 THEN Raise(f, "ValueError_trX")
    ELSE IF trY <= 0 THEN Raise(f, "ValueError_trY")
    ELSE IF resampleMethod \notin RASTER_RESAMPLE_METHOD THEN Raise(f, "AssertionError")
    ELSE LET sys == System(f, config["PATH_OF_GDAL_WARP"], outRasterFilename, {}, outcome)
         IN  IF sys.returnCode # 0
                 THEN Ran(sys, "Exception_command_failed", "None")
                 ELSE Ran(sys, "ok", "None")

\* The two gdalwarp commands (s_srs given or None) differ in the -s_srs flag
\* only; the input raster is read by the tool, not by this function.
resampleRaster(f, dw, config, outputDir, outRasterFilename, trX, trY, resampleMethod, outcome) ==
    IF ~IsExecutable(config["PATH_OF_GDAL_WARP"]) THEN Raise(f, "IOError_EACCES_cmd")
    ELSE IF ~IsDir(outputDir) THEN Raise(f, "IOError_ENOTDIR")
    ELSE IF ~dw THEN Raise(f, "IOError_EACCES_dir")
    ELSE IF trX <= 0 THEN Raise(f, "ValueError_trX")
    ELSE IF trY <= 0 THEN Raise(f, "ValueError_trY")
    ELSE IF resampleMethod \notin RASTER_RESAMPLE_METHOD THEN Raise(f, "AssertionError")
    ELSE IF ~Exists(f, outputDir, outRasterFilename)
         THEN LET sys == System(f, config["PATH_OF_GDAL_WARP"], outRasterFilename, {}, outcome)
              IN  IF sys.returnCode # 0
                      THEN Ran(sys, "Exception_command_failed", "None")
                      ELSE Ran(sys, "ok", "None")
    ELSE Outcome(f, "ok", "None", FALSE, {})

\* convertGMLToShapefile returning the file name whatever os.system returned
convertGMLToShapefile_IgnoresReturnCode(f, dw, config, outputDir, layerName, outcome) ==
    IF ~IsDir(outputDir) THEN Raise(f, "IOError_ENOTDIR")
    ELSE IF ~dw THEN Raise(f, "IOError_EACCES_dir")
    ELSE LET shpFilename == ShpFilename(layerName)
         IN  IF ~Exists(f, outputDir, shpFilename)
             THEN Ran(System(f, config["PATH_OF_OGR2OGR"], shpFilename,
                             ShapefileParts(shpFilename) \ {shpFilename}, outcome),
                      "ok", shpFilename)
             ELSE Outcome(f, "ok", shpFilename, FALSE, {})

\* the path of ogr2ogr is not tested with os.access before os.system
convertGMLToShapefile(f, dw, config, outputDir, layerName, outcome) ==
    IF ~IsDir(outputDir) THEN Raise(f, "IOError_ENOTDIR")
    ELSE IF ~dw THEN Raise(f, "IOError_EACCES_dir")
    ELSE LET shpFilename == ShpFilename(layerName)
         IN  IF ~Exists(f, outputDir, shpFilename)
             THEN LET sys == System(f, config["PATH_OF_OGR2OGR"], shpFilename,
                                    ShapefileParts(shpFilename) \ {shpFilename}, outcome)
                  IN  IF sys.returnCode # 0
                          THEN Ran(sys, "Exception_command_failed", "None")
                          ELSE Ran(sys, "ok", shpFilename)
             ELSE Outcome(f, "ok", shpFilename, FALSE, {})

\* the input raster's access test raises TypeError, not IOError: the message
\* "..." (inRasterPath,) lacks its % operator and calls a string
copyRasterToGeoTIFF(f, dw, config, outputDir, inKind, outRasterName, outcome) ==
    IF ~IsExecutable(config["PATH_OF_GDAL_TRANSLATE"]) THEN Raise(f, "IOError_EACCES_cmd")
    ELSE IF ~IsDir(outputDir) THEN Raise(f, "IOError_ENOTDIR")
    ELSE IF ~dw THEN Raise(f, "IOError_EACCES_dir")
    ELSE IF inKind = "unreadable" THEN Raise(f, "TypeError")
    ELSE LET sys == System(f, config["PATH_OF_GDAL_TRANSLATE"], outRasterName, {}, outcome)
         IN  IF sys.returnCode # 0
                 THEN Ran(sys, "Exception_command_failed", "None")
                 ELSE Ran(sys, "ok", "None")

\* the polygon writer without its os.path.exists test
writeBboxPolygonToShapefile_NoExistsTest(f, dw, b, outputDir, layerName) ==
    LET shpFilename == ShpFilename(layerName)
    IN  IF ~IsDir(outputDir) THEN Raise(f, "IOError_ENOTDIR")
        ELSE IF ~dw THEN Raise(f, "IOError_EACCES_dir")
        ELSE Outcome(Written(f, ShapefileParts(shpFilename)), "ok", shpFilename,
                     FALSE, ShapefileParts(shpFilename))

\* hDriver.CreateDataSource / CreateLayer / CreateFeature / hDS.Destroy write
\* the shapefile and its sidecars
writeBboxPolygonToShapefile(f, dw, b, outputDir, layerName) ==
    LET shpFilename == ShpFilename(layerName)
    IN  IF ~IsDir(outputDir) THEN Raise(f, "IOError_ENOTDIR")
        ELSE IF ~dw THEN Raise(f, "IOError_EACCES_dir")
        ELSE IF Exists(f, outputDir, shpFilename) THEN Raise(f, "Exception_already_exists")
        ELSE Outcome(Written(f, ShapefileParts(shpFilename)), "ok", shpFilename,
                     FALSE, ShapefileParts(shpFilename))

\* the point writer testing the output directory before the lengths
writeCoordinatePairsToPointShapefile_DirectoryFirst(f, dw, outputDir, layerName, pointIDAttr, pointIDs, coordinates) ==
    LET shpFilename == ShpFilename(layerName)
        numCoord == Len(coordinates)
    IN  IF ~IsDir(outputDir) THEN Raise(f, "IOError_ENOTDIR")
        ELSE IF ~dw THEN Raise(f, "IOError_EACCES_dir")
        ELSE IF Len(pointIDs) # numCoord THEN Raise(f, "AssertionError")
        ELSE IF Exists(f, outputDir, shpFilename) THEN Raise(f, "Exception_already_exists")
        ELSE Outcome(Written(f, ShapefileParts(shpFilename)), "ok", shpFilename,
                     FALSE, ShapefileParts(shpFilename))

\* the point writer without its os.path.exists test
writeCoordinatePairsToPointShapefile_NoExistsTest(f, dw, outputDir, layerName, pointIDAttr, pointIDs, coordinates) ==
    LET shpFilename == ShpFilename(layerName)
        numCoord == Len(coordinates)
    IN  IF Len(pointIDs) # numCoord THEN Raise(f, "AssertionError")
        ELSE IF ~IsDir(outputDir) THEN Raise(f, "IOError_ENOTDIR")
        ELSE IF ~dw THEN Raise(f, "IOError_EACCES_dir")
        ELSE Outcome(Written(f, ShapefileParts(shpFilename)), "ok", shpFilename,
                     FALSE, ShapefileParts(shpFilename))

writeCoordinatePairsToPointShapefile(f, dw, outputDir, layerName, pointIDAttr, pointIDs, coordinates) ==
    LET shpFilename == ShpFilename(layerName)
        numCoord == Len(coordinates)
    IN  IF Len(pointIDs) # numCoord THEN Raise(f, "AssertionError")
        ELSE IF ~IsDir(outputDir) THEN Raise(f, "IOError_ENOTDIR")
        ELSE IF ~dw THEN Raise(f, "IOError_EACCES_dir")
        ELSE IF Exists(f, outputDir, shpFilename) THEN Raise(f, "Exception_already_exists")
        ELSE Outcome(Written(f, ShapefileParts(shpFilename)), "ok", shpFilename,
                     FALSE, ShapefileParts(shpFilename))

\* os.remove(path): OSError for a file that is not there
OsRemove(st, path) ==
    IF st.result # "ok" THEN st
    ELSE IF path \in DOMAIN st.fs /\ st.fs[path] # "absent"
        THEN [st EXCEPT !.fs = Removed(st.fs, path), !.wrote = st.wrote \cup {path}]
    ELSE [st EXCEPT !.result = "OSError_ENOENT"]

\* os.remove(path) without the os.path.exists test before it
RemoveUnguarded(st, path) == OsRemove(st, path)

\* if os.path.exists(path): os.remove(path)
RemoveIfExists(st, path) ==
    IF st.result = "ok" /\ path \in DOMAIN st.fs /\ st.fs[path] # "absent"
        THEN OsRemove(st, path)
    ELSE st

\* for ext in exts: tmpFilepath = fileName + "." + ext; remove it if it exists
RECURSIVE RemoveSidecars(_, _, _, _)
RemoveSidecars(st, fileName, exts, i) ==
    IF i > Len(exts) THEN st
    ELSE RemoveSidecars(RemoveIfExists(st, fileName \o exts[i]), fileName, exts, i + 1)

deleteShapefile(f, shpfilePath) ==
    LET fileName == SplitextStem(shpfilePath)
        exts == [i \in 1..Len(SHP_EXT) |-> <<SHP_EXT[i]>>]
    IN  RemoveSidecars(RemoveIfExists(Outcome(f, "ok", "None", FALSE, {}), shpfilePath),
                       fileName, exts, 1)

deleteGeoTiff(f, geoTiffPath) ==
    LET fileName == SplitextStem(geoTiffPath)
    IN  RemoveSidecars(RemoveIfExists(Outcome(f, "ok", "None", FALSE, {}), geoTiffPath),
                       fileName, GTIFF_EXT, 1)

(***************************************************************************)
(* OGR data sources.                                                       *)
(*                                                                         *)
(* A data source is the sequence of its layers; <<>> is a file that        *)
(* ogr.Open cannot open (it returns None).  A layer has a name, the        *)
(* AUTHORITY name:code of its spatial reference ("none" without one), its  *)
(* attribute fields and its features; a feature has one value per field    *)
(* and a geometry, the sequence of its vertices <<x, y>>.  A string value  *)
(* is a sequence of characters, an integer value is a number.  Layers are  *)
(* in WGS84, for which pyproj's transform to EPSG:4326 changes nothing.    *)
(***************************************************************************)
SHP_MINX == 0
SHP_MAXX == 1
SHP_MINY == 2
SHP_MAXY == 3

OFTString == "OFTString"
OFTInteger == "OFTInteger"

SetMin(S) == CHOOSE x \in S : \A y \in S : x <= y
SetMax(S) == CHOOSE x \in S : \A y \in S : x >= y

\* OGRGeometry.GetEnvelope(): (minX, maxX, minY, maxY)
GetEnvelope(geom) ==
    LET xs == {geom[i][1] : i \in 1..Len(geom)}
        ys == {geom[i][2] : i \in 1..Len(geom)}
    IN  <<SetMin(xs), SetMax(xs), SetMin(ys), SetMax(ys)>>

\* the point set with latitude first (SetPoint_2D(0, y, x))
PointShapefile_LatitudeFirst(layerName, pointIDAttr, pointIDs, coordinates) ==
    << [name |-> layerName,
        srs |-> "EPSG:4326",
        fields |-> << [name |-> pointIDAttr, type |-> OFTString] >>,
        features |-> [i \in 1..Len(coordinates) |->
                        [attrs |-> << pointIDs[i] >>,
                         geom |-> << <<coordinates[i][2], coordinates[i][1]>> >>]]] >>

\* the data source created by writeCoordinatePairsToPointShapefile: one point
\* layer in WGS84 with a string field and one feature per coordinate pair
PointShapefile(layerName, pointIDAttr, pointIDs, coordinates) ==
    << [name |-> layerName,
        srs |-> "EPSG:4326",
        fields |-> << [name |-> pointIDAttr, type |-> OFTString] >>,
        features |-> [i \in 1..Len(coordinates) |->
                        [attrs |-> << pointIDs[i] >>,
                         geom |-> << <<coordinates[i][1], coordinates[i][2]>> >>]]] >>

\* the ring added in the order SW, SE, NE, NW
BboxRing_CounterClockwise(b) ==
    << <<b.minX, b.minY>>, <<b.maxX, b.minY>>, <<b.maxX, b.maxY>>, <<b.minX, b.maxY>> >>

\* the ring.AddPoint calls of writeBboxPolygonToShapefile, in their order
BboxRing(b) ==
    << <<b.minX, b.minY>>, <<b.minX, b.maxY>>, <<b.maxX, b.maxY>>, <<b.maxX, b.minY>> >>

\* the data source created by writeBboxPolygonToShapefile: one polygon layer in
\* WGS84 without fields, holding one feature
BboxPolygonShapefile(b, layerName) ==
    << [name |-> layerName,
        srs |-> "EPSG:4326",
        fields |-> <<>>,
        features |-> << [attrs |-> <<>>, geom |-> BboxRing(b)] >>] >>

\* the points handed to PolygonArea.Area by calculateBoundingBoxAreaSqMeters,
\* in their order, as <<lon, lat>>
AreaPolygonPoints(b) ==
    << <<b.minX, b.minY>>, <<b.maxX, b.minY>>, <<b.maxX, b.maxY>>, <<b.minX, b.maxY>> >>

\* the while loop of getBoundingBoxForShapefile from feature i on
RECURSIVE AccumulateEnvelopes(_, _, _)
AccumulateEnvelopes(features, i, acc) ==
    IF i > Len(features) THEN acc
    ELSE LET poEnvelope == GetEnvelope(features[i].geom)
             tmpMinX == poEnvelope[SHP_MINX + 1]
             tmpMinY == poEnvelope[SHP_MINY + 1]
             tmpMaxX == poEnvelope[SHP_MAXX + 1]
             tmpMaxY == poEnvelope[SHP_MAXY + 1]
             next == [minX |-> IF tmpMinX < acc.minX THEN tmpMinX ELSE acc.minX,
                      minY |-> IF tmpMinY < acc.minY THEN tmpMinY ELSE acc.minY,
                      maxX |-> IF tmpMaxX > acc.maxX THEN tmpMaxX ELSE acc.maxX,
                      maxY |-> IF tmpMaxY > acc.maxY THEN tmpMaxY ELSE acc.maxY,
                      srs |-> acc.srs]
         IN  AccumulateEnvelopes(features, i + 1, next)

\* `ogrExceptions` tells whether ogr.UseExceptions() was called earlier in the
\* process (the two writers call it): ogr.Open then raises for a file it cannot
\* open, and returns None otherwise.  GetSpatialRef() is None for a layer
\* without a spatial reference.
getBoundingBoxForShapefile(ogrExceptions, ds, buffer) ==
    IF buffer < 0 THEN [result |-> "AssertionError", ret |-> "None"]
    ELSE IF ds = <<>>
        THEN [result |-> IF ogrExceptions THEN "RuntimeError" ELSE "AttributeError",
              ret |-> "None"]
    ELSE IF ds[1].srs = "none" THEN [result |-> "AttributeError", ret |-> "None"]
    ELSE LET seed == [minX |-> 0, minY |-> 90, maxX |-> -180, maxY |-> 0,
                      srs |-> "EPSG:4326"]
         IN  [result |-> "ok",
              ret |-> bufferBoundingBox(AccumulateEnvelopes(ds[1].features, 1, seed), buffer)]

\* " and " of the format "%s and %s=%s"
AndStr == <<" ", "a", "n", "d", " ">>

\* the for loop over pointIDs[1:]: whereFilter = "%s and %s=%s" % (whereFilter, pointIDAttr, point)
RECURSIVE AppendRestOfIDs(_, _, _, _)
AppendRestOfIDs(whereFilter, pointIDAttr, pointIDs, i) ==
    IF i > Len(pointIDs) THEN whereFilter
    ELSE AppendRestOfIDs(whereFilter \o AndStr \o pointIDAttr \o <<"=">> \o pointIDs[i],
                         pointIDAttr, pointIDs, i + 1)

\* the query string built from the type of the ID field
BuildWhereFilter(idAttrType, pointIDAttr, pointIDs) ==
    IF idAttrType = OFTString
        THEN AppendRestOfIDs(pointIDAttr \o <<"=", "'">> \o pointIDs[1] \o <<"'">>,
                             pointIDAttr, pointIDs, 2)
    ELSE AppendRestOfIDs(pointIDAttr \o <<"=">> \o pointIDs[1], pointIDAttr, pointIDs, 2)

\* the position of the first occurrence of `pat` in s, or 0
FindSub(s, pat) ==
    LET hits == {i \in 1..(Len(s) - Len(pat) + 1) : SubSeq(s, i, i + Len(pat) - 1) = pat}
    IN  IF hits = {} THEN 0 ELSE SetMin(hits)

\* OGR SQL: the conjuncts of a WHERE clause of the form t1 and t2 and ...
RECURSIVE SplitConjuncts(_)
SplitConjuncts(s) ==
    LET k == FindSub(s, AndStr)
    IN  IF k = 0 THEN <<s>>
        ELSE <<SubSeq(s, 1, k - 1)>> \o SplitConjuncts(SubSeq(s, k + Len(AndStr), Len(s)))

\* OGR SQL: one comparison `field=operand`; the operand is a string literal
\* ('...'), a number, or an identifier
ParseComparison(t) ==
    LET k == FindSub(t, <<"=">>)
        operand == SubSeq(t, k + 1, Len(t))
    IN  IF k = 0 THEN [field |-> t, kind |-> "malformed", text |-> <<>>]
        ELSE IF Len(operand) >= 2 /\ operand[1] = "'" /\ operand[Len(operand)] = "'"
            THEN [field |-> SubSeq(t, 1, k - 1), kind |-> "string",
                  text |-> SubSeq(operand, 2, Len(operand) - 1)]
        ELSE IF Len(operand) >= 1 /\ \A i \in 1..Len(operand) : IsDigit(operand[i])
            THEN [field |-> SubSeq(t, 1, k - 1), kind |-> "number", text |-> operand]
        ELSE [field |-> SubSeq(t, 1, k - 1), kind |-> "identifier", text |-> operand]

\* the index of the field named `name` in the layer definition, or 0
FieldIndex(layer, name) ==
    LET hits == {i \in 1..Len(layer.fields) : layer.fields[i].name = name}
    IN  IF hits = {} THEN 0 ELSE SetMin(hits)

\* OGR SQL type checking of one comparison against the layer definition: the
\* field exists and the operand is a literal of the field's type
ComparisonCompiles(layer, c) ==
    /\ FieldIndex(layer, c.field) > 0
    /\ \/ c.kind = "string" /\ layer.fields[FieldIndex(layer, c.field)].type = OFTString
       \/ c.kind = "number" /\ layer.fields[FieldIndex(layer, c.field)].type = OFTInteger

ComparisonHolds(layer, c, feature) ==
    IF c.kind = "string" THEN feature.attrs[FieldIndex(layer, c.field)] = c.text
    ELSE feature.attrs[FieldIndex(layer, c.field)] = ParseNat(c.text)

\* poLayer.SetAttributeFilter(whereFilter): 0 if the clause compiles
FilterCompiles(layer, whereFilter) ==
    LET cs == SplitConjuncts(whereFilter)
    IN  \A i \in 1..Len(cs) : ComparisonCompiles(layer, ParseComparison(cs[i]))

\* the features GetNextFeature() yields under the attribute filter, in order
FilteredFeatures(layer, whereFilter) ==
    LET cs == SplitConjuncts(whereFilter)
        Matches(ft) == \A i \in 1..Len(cs) : ComparisonHolds(layer, ParseComparison(cs[i]), ft)
    IN  SelectSeq(layer.features, Matches)

\* poDS.GetLayerByName(layerName): the index of the layer, or 0
LayerIndexByName(ds, layerName) ==
    LET hits == {i \in 1..Len(ds) : ds[i].name = layerName}
    IN  IF hits = {} THEN 0 ELSE SetMin(hits)

\* the type of the ID field: OFTString unless the layer has a field of that name
IdAttrType(layer, pointIDAttr) ==
    IF FieldIndex(layer, pointIDAttr) > 0
        THEN layer.fields[FieldIndex(layer, pointIDAttr)].type
    ELSE OFTString

\* the reader returning the list it collected without testing its length
getCoordinatesOfPointsFromShapefile_ReturnsEmpty(readable, ogrExceptions, ds, layerName, pointIDAttr, pointIDs) ==
    LET Fail(e, w) == [result |-> e, ret |-> <<>>, whereFilter |-> w]
    IN  IF ~readable THEN Fail("IOError_EACCES", <<>>)
        ELSE IF ds = <<>> THEN Fail(IF ogrExceptions THEN "RuntimeError" ELSE "AttributeError", <<>>)
        ELSE IF LayerIndexByName(ds, layerName) = 0 THEN Fail("Exception_layer_not_found", <<>>)
        ELSE IF Len(pointIDs) = 0 THEN Fail("AssertionError", <<>>)
        ELSE LET poLayer == ds[LayerIndexByName(ds, layerName)]
                 whereFilter == BuildWhereFilter(IdAttrType(poLayer, pointIDAttr),
                                                 pointIDAttr, pointIDs)
             IN  IF poLayer.srs = "none" THEN Fail("AttributeError", whereFilter)
                 ELSE IF ~FilterCompiles(poLayer, whereFilter)
                     THEN Fail(IF ogrExceptions THEN "RuntimeError"
                               ELSE "Exception_feature_not_found", whereFilter)
                 ELSE LET found == FilteredFeatures(poLayer, whereFilter)
                          coordinates == [i \in 1..Len(found) |->
                                            <<found[i].geom[1][1], found[i].geom[1][2]>>]
                      IN  [result |-> "ok", ret |-> coordinates, whereFilter |-> whereFilter]

\* `readable` is os.access(shpFilepath, os.R_OK).  `ogrExceptions` tells whether
\* ogr.UseExceptions() was called earlier in the process (the two writers call
\* it): ogr.Open of a file it cannot open and a rejected attribute filter then
\* raise instead of returning None and non-zero.
getCoordinatesOfPointsFromShapefile(readable, ogrExceptions, ds, layerName, pointIDAttr, pointIDs) ==
    LET Fail(e, w) == [result |-> e, ret |-> <<>>, whereFilter |-> w]
    IN  IF ~readable THEN Fail("IOError_EACCES", <<>>)
        ELSE IF ds = <<>> THEN Fail(IF ogrExceptions THEN "RuntimeError" ELSE "AttributeError", <<>>)
        ELSE IF LayerIndexByName(ds, layerName) = 0 THEN Fail("Exception_layer_not_found", <<>>)
        ELSE IF Len(pointIDs) = 0 THEN Fail("AssertionError", <<>>)
        ELSE LET poLayer == ds[LayerIndexByName(ds, layerName)]
                 whereFilter == BuildWhereFilter(IdAttrType(poLayer, pointIDAttr),
                                                 pointIDAttr, pointIDs)
             IN  IF poLayer.srs = "none" THEN Fail("AttributeError", whereFilter)
                 ELSE IF ~FilterCompiles(poLayer, whereFilter)
                     THEN Fail(IF ogrExceptions THEN "RuntimeError"
                               ELSE "Exception_feature_not_found", whereFilter)
                 ELSE LET found == FilteredFeatures(poLayer, whereFilter)
                          coordinates == [i \in 1..Len(found) |->
                                            <<found[i].geom[1][1], found[i].geom[1][2]>>]
                      IN  IF Len(coordinates) = 0
                              THEN Fail("Exception_no_features_found", whereFilter)
                          ELSE [result |-> "ok", ret |-> coordinates,
                                whereFilter |-> whereFilter]

(***************************************************************************)
(* The operations on the project directory, called in any order.           *)
(***************************************************************************)
TrArgs == {<<0, 30>>, <<30, 0>>, <<30, 30>>}
MethodArgs == {"bilinear", "nearest"}
InputKindArgs == {<<"raster", "raster">>, <<"junk", "raster">>, <<"raster", "junk">>}
StudyAreaBox == [minX |-> -77, minY |-> 39, maxX |-> -76, maxY |-> 40, srs |-> "EPSG:4326"]

\* attribute names, gage IDs and station numbers, as the strings of their characters
PointIDAttr == <<"i", "d">>
OtherAttr == <<"n", "o">>
G1 == <<"G", "1">>
G2 == <<"G", "2">>
N7 == <<"7">>
N8 == <<"8">>
PointIDArgs == {<<G1>>, <<G1, G2>>}
CoordinateArgs == {<< <<-76, 39>> >>, << <<-76, 39>>, <<10, -20>> >>}

\* the data source of a shapefile found in the project directory
SurveyedGages == PointShapefile(LayerName, PointIDAttr, <<G1>>, << <<-76, 39>> >>)

\* the data source ogr2ogr makes of the GML input: its map unit polygons
ConvertedGML(layerName) == BboxPolygonShapefile(StudyAreaBox, layerName)

\* the data source at <LayerName>.shp after an operation that wrote or removed
\* the paths `wrote`, the .shp holding `written` if it was written completely
DataAfter(f, wrote, written) ==
    IF ShpFilename(LayerName) \notin wrote THEN shpData
    ELSE IF f[ShpFilename(LayerName)] = "new" THEN written
    ELSE <<>>

InitialFiles ==
    {f \in [ProjPaths -> {"absent", "old", "present"}] :
        /\ \A p \in Primaries : f[p] \in {"absent", "old"}
        /\ \A p \in Sidecars : f[p] \in {"absent", "present"}}

Init ==
    /\ fs \in InitialFiles
    /\ dirWritable \in BOOLEAN
    /\ bbox = StudyAreaBox
    /\ nbuf = 0
    /\ call = NoCall
    /\ pc = <<>>
    /\ metadata = {}
    /\ shpData = IF fs[ShpFilename(LayerName)] = "absent" THEN <<>> ELSE SurveyedGages

\* whether this call repeats the previous one: same operation, same arguments,
\* the previous one having returned normally after running its tool or not
RepeatOf(op, args) ==
    IF call.op = op /\ call.args = args /\ call.result = "ok"
        THEN (IF call.invoked THEN "afterRun" ELSE "afterNoOp")
    ELSE "no"

\* the record of operation `op` called with `args`, writing to `dest` in `dir`,
\* with outcome r
CallRecord(op, args, dir, dest, r) ==
    [op |-> op, args |-> args, result |-> r.result, ret |-> r.ret,
     invoked |-> r.invoked, wrote |-> r.wrote, returnCode |-> r.returnCode,
     dest |-> dest, destBefore |-> ContentAt(fs, dir, dest),
     repeat |-> RepeatOf(op, args)]

\* the tool's behaviour is a choice only in a call that runs the tool
OutcomesWhen(invoked) == IF invoked THEN ToolOutcomes ELSE {"ok"}

CallResampleRaster ==
    \E config \in ConfigArgs, dir \in DirArgs, tr \in TrArgs, method \in MethodArgs :
      \E outcome \in OutcomesWhen(resampleRaster(fs, dirWritable, config, dir, RasterName,
                                                 tr[1], tr[2], method, "ok").invoked) :
        LET r == resampleRaster(fs, dirWritable, config, dir, RasterName, tr[1], tr[2],
                                method, outcome)
        IN  /\ fs' = r.fs
            /\ call' = CallRecord("resampleRaster", <<config, dir, RasterName, tr, method>>,
                                  dir, RasterName, r)
            /\ UNCHANGED <<pc, metadata, dirWritable, bbox, nbuf, shpData>>

CallExtractTileFromRasterByRasterExtent ==
    \E config \in ConfigArgs, dir \in DirArgs, kinds \in InputKindArgs, method \in MethodArgs :
      \E outcome \in OutcomesWhen(extractTileFromRasterByRasterExtent(fs, dirWritable, config,
                        dir, kinds[1], kinds[2], RasterName, method, "ok").invoked) :
        LET r == extractTileFromRasterByRasterExtent(fs, dirWritable, config, dir, kinds[1],
                                                     kinds[2], RasterName, method, outcome)
        IN  /\ fs' = r.fs
            /\ call' = CallRecord("extractTileFromRasterByRasterExtent",
                                  <<config, dir, kinds, RasterName, method>>,
                                  dir, RasterName, r)
            /\ UNCHANGED <<pc, metadata, dirWritable, bbox, nbuf, shpData>>

CallExtractTileFromRaster ==
    \E config \in ConfigArgs, dir \in DirArgs, inKind \in RasterKinds :
      \E outcome \in OutcomesWhen(extractTileFromRaster(fs, dirWritable, config, dir, inKind,
                                                        RasterName, "ok").invoked) :
        LET r == extractTileFromRaster(fs, dirWritable, config, dir, inKind, RasterName,
                                       outcome)
        IN  /\ fs' = r.fs
            /\ call' = CallRecord("extractTileFromRaster",
                                  <<config, dir, inKind, RasterName>>, dir, RasterName, r)
            /\ UNCHANGED <<pc, metadata, dirWritable, bbox, nbuf, shpData>>

CallCopyRasterToGeoTIFF ==
    \E config \in ConfigArgs, dir \in DirArgs, inKind \in {"raster", "unreadable"} :
      \E outcome \in OutcomesWhen(copyRasterToGeoTIFF(fs, dirWritable, config, dir, inKind,
                                                      RasterName, "ok").invoked) :
        LET r == copyRasterToGeoTIFF(fs, dirWritable, config, dir, inKind, RasterName,
                                     outcome)
        IN  /\ fs' = r.fs
            /\ call' = CallRecord("copyRasterToGeoTIFF",
                                  <<config, dir, inKind, RasterName>>, dir, RasterName, r)
            /\ UNCHANGED <<pc, metadata, dirWritable, bbox, nbuf, shpData>>

CallConvertGMLToShapefile ==
    \E config \in ConfigArgs, dir \in DirArgs :
      \E outcome \in OutcomesWhen(convertGMLToShapefile(fs, dirWritable, config, dir,
                                                        LayerName, "ok").invoked) :
        LET r == convertGMLToShapefile(fs, dirWritable, config, dir, LayerName, outcome)
        IN  /\ fs' = r.fs
            /\ call' = CallRecord("convertGMLToShapefile", <<config, dir, LayerName>>,
                                  dir, ShpFilename(LayerName), r)
            /\ shpData' = DataAfter(r.fs, r.wrote, ConvertedGML(LayerName))
            /\ UNCHANGED <<pc, metadata, dirWritable, bbox, nbuf>>

CallWriteBboxPolygonToShapefile ==
    \E dir \in DirArgs :
        LET r == writeBboxPolygonToShapefile(fs, dirWritable, bbox, dir, LayerName)
        IN  /\ fs' = r.fs
            /\ call' = CallRecord("writeBboxPolygonToShapefile", <<bbox, dir, LayerName>>,
                                  dir, ShpFilename(LayerName), r)
            /\ shpData' = DataAfter(r.fs, r.wrote, BboxPolygonShapefile(bbox, LayerName))
            /\ UNCHANGED <<pc, metadata, dirWritable, bbox, nbuf>>

CallWriteCoordinatePairsToPointShapefile ==
    \E dir \in DirArgs, pointIDs \in PointIDArgs, coordinates \in CoordinateArgs :
        LET r == writeCoordinatePairsToPointShapefile(fs, dirWritable, dir, LayerName,
                                                      PointIDAttr, pointIDs, coordinates)
        IN  /\ fs' = r.fs
            /\ call' = CallRecord("writeCoordinatePairsToPointShapefile",
                                  <<dir, LayerName, PointIDAttr, pointIDs, coordinates>>,
                                  dir, ShpFilename(LayerName), r)
            /\ shpData' = DataAfter(r.fs, r.wrote, PointShapefile(LayerName, PointIDAttr, pointIDs, coordinates))
            /\ UNCHANGED <<pc, metadata, dirWritable, bbox, nbuf>>

CallDeleteShapefile ==
    \E path \in Primaries :
        LET r == deleteShapefile(fs, path)
        IN  /\ fs' = r.fs
            /\ call' = CallRecord("deleteShapefile", <<path>>, ProjectDir, path, r)
            /\ shpData' = DataAfter(r.fs, r.wrote, <<>>)
            /\ UNCHANGED <<pc, metadata, dirWritable, bbox, nbuf>>

CallDeleteGeoTiff ==
    \E path \in Primaries :
        LET r == deleteGeoTiff(fs, path)
        IN  /\ fs' = r.fs
            /\ call' = CallRecord("deleteGeoTiff", <<path>>, ProjectDir, path, r)
            /\ shpData' = DataAfter(r.fs, r.wrote, <<>>)
            /\ UNCHANGED <<pc, metadata, dirWritable, bbox, nbuf>>

Next ==
    \/ CallResampleRaster
    \/ CallExtractTileFromRasterByRasterExtent
    \/ CallExtractTileFromRaster
    \/ CallCopyRasterToGeoTIFF
    \/ CallConvertGMLToShapefile
    \/ CallWriteBboxPolygonToShapefile
    \/ CallWriteCoordinatePairsToPointShapefile
    \/ CallDeleteShapefile
    \/ CallDeleteGeoTiff

Spec == Init /\ [][Next]_vars

(***************************************************************************)
(* Reading shapefiles: the vector functions on <LayerName>.shp.            *)
(***************************************************************************)
\* number of features of a shapefile found in the project directory
MaxFeatures == 2

\* point features with a string ID: two gages west/north, one east/south
StringFeatureArgs ==
    {[attrs |-> <<G1>>, geom |-> << <<-76, 39>> >>],
     [attrs |-> <<G1>>, geom |-> << <<-77, 38>> >>],
     [attrs |-> <<G2>>, geom |-> << <<10, -20>> >>]}

\* point features with an integer ID
IntegerFeatureArgs ==
    {[attrs |-> <<7>>, geom |-> << <<-76, 39>> >>],
     [attrs |-> <<8>>, geom |-> << <<10, -20>> >>]}

SeqsUpTo(S, n) == UNION {[1..k -> S] : k \in 0..n}

PointLayer(srs, type, features) ==
    << [name |-> LayerName, srs |-> srs,
        fields |-> << [name |-> PointIDAttr, type |-> type] >>,
        features |-> features] >>

\* the data sources a shapefile of the project directory may hold
DataSourceArgs ==
    {PointLayer("EPSG:4326", OFTString, fts) : fts \in SeqsUpTo(StringFeatureArgs, MaxFeatures)}
    \cup {PointLayer("EPSG:4326", OFTInteger, fts) : fts \in SeqsUpTo(IntegerFeatureArgs, MaxFeatures)}
    \cup {PointLayer("none", OFTString, <<>>)}

IDListArgs == {<<>>, <<G1>>, <<G2>>, <<G1, G1>>, <<G1, G2>>, <<N7>>, <<N7, N7>>, <<N7, N8>>}

ShpBoxArgs ==
    {StudyAreaBox, [minX |-> 10, minY |-> -20, maxX |-> 10, maxY |-> 0, srs |-> "EPSG:4326"]}

NoFiles == [p \in ProjPaths |-> "absent"]

\* the shapefile and its sidecars, there before the first operation
ShapefileFound ==
    [p \in ProjPaths |->
        IF p = ShpFilename(LayerName) THEN "old"
        ELSE IF p \in ShapefileParts(ShpFilename(LayerName)) THEN "present" ELSE "absent"]

InitShp ==
    /\ fs \in {NoFiles, ShapefileFound}
    /\ dirWritable = TRUE
    /\ bbox \in ShpBoxArgs
    /\ nbuf = 0
    /\ call = NoCall
    /\ pc = <<>>
    /\ metadata = {}
    /\ shpData \in IF fs = NoFiles THEN {<<>>} ELSE DataSourceArgs \cup {<<>>}

\* The data source handle poDS when a reading function exits.  Neither function
\* calls poDS.Destroy() or uses try/finally: the handle is released when the
\* last reference to it goes, which is the function's frame.  A normal return
\* drops the frame; a raised exception keeps it, and poDS with it, in its
\* traceback while it propagates.
HandleAtExit(opened, result) ==
    IF ~opened THEN "never opened"
    ELSE IF result = "ok" THEN "released"
    ELSE "open"

CallGetBoundingBoxForShapefile ==
    \E buffer \in {-Edge, 0, Edge}, ogrExceptions \in BOOLEAN :
        /\ LET r == getBoundingBoxForShapefile(ogrExceptions, shpData, buffer)
           IN  call' = [op |-> "getBoundingBoxForShapefile",
                        args |-> <<ShpFilename(LayerName), buffer>>,
                        data |-> shpData,
                        result |-> r.result,
                        ret |-> r.ret,
                        poDS |-> HandleAtExit(buffer >= 0 /\ shpData # <<>>, r.result)]
        /\ UNCHANGED <<pc, metadata, fs, dirWritable, bbox, nbuf, shpData>>

\* ogr.UseExceptions() is in force if a writer ran earlier in the process, and
\* the caller may have switched it on itself
CallGetCoordinatesOfPointsFromShapefile ==
    \E layerName \in {LayerName, "streams"}, pointIDAttr \in {PointIDAttr, OtherAttr},
       pointIDs \in IDListArgs,
       readable \in (IF Exists(fs, ProjectDir, ShpFilename(LayerName)) THEN BOOLEAN ELSE {FALSE}),
       ogrExceptions \in BOOLEAN :
        /\ LET r == getCoordinatesOfPointsFromShapefile(readable, ogrExceptions, shpData,
                                                        layerName, pointIDAttr, pointIDs)
           IN  call' = [op |-> "getCoordinatesOfPointsFromShapefile",
                        args |-> <<ShpFilename(LayerName), layerName, pointIDAttr, pointIDs>>,
                        readable |-> readable,
                        data |-> shpData,
                        result |-> r.result,
                        ret |-> r.ret,
                        whereFilter |-> r.whereFilter,
                        poDS |-> HandleAtExit(readable /\ shpData # <<>>, r.result)]
        /\ UNCHANGED <<pc, metadata, fs, dirWritable, bbox, nbuf, shpData>>

NextShp ==
    \/ CallGetBoundingBoxForShapefile
    \/ CallGetCoordinatesOfPointsFromShapefile
    \/ CallWriteBboxPolygonToShapefile
    \/ CallWriteCoordinatePairsToPointShapefile
    \/ CallDeleteShapefile

SpecShp == InitShp /\ [][NextShp]_vars

GuardedOps ==
    {"resampleRaster", "extractTileFromRaster", "extractTileFromRasterByRasterExtent",
     "convertGMLToShapefile"}

ShapefileWriters ==
    {"writeBboxPolygonToShapefile", "writeCoordinatePairsToPointShapefile"}

WriteOps == GuardedOps \cup ShapefileWriters \cup {"copyRasterToGeoTIFF"}

DeleteOps == {"deleteShapefile", "deleteGeoTiff"}

\* C1: for each guarded operation, after a first successful call a second call
\* with identical arguments invokes no external tool, leaves the output file
\* and every other file unchanged, and reports success.
C1_SecondCallIsNoOp ==
    [][(call'.op \in GuardedOps /\ call'.repeat # "no")
          => (~call'.invoked /\ call'.wrote = {} /\ fs' = fs /\ call'.result = "ok")]_vars

\* resampleRaster ran gdalwarp, which wrote the raster, and was called again
C1_Witness ==
    /\ call.op = "resampleRaster"
    /\ call.repeat = "afterRun"
    /\ call.result = "ok"
    /\ ~call.invoked
    /\ fs[RasterName] = "new"

\* C2 (as stated): no write operation of the layer ever modifies or replaces a
\* file that already exists at its destination path: when the destination
\* exists the operation returns without invoking its tool, or raises.
C2_NoWriteOpTouchesExistingDest ==
    (call.op \in WriteOps /\ call.destBefore # "absent")
        => /\ ~call.invoked
           /\ call.dest \notin call.wrote
           /\ fs[call.dest] = call.destBefore

\* C2 (amended): the same for every write operation but copyRasterToGeoTIFF,
\* which has no existence test.
C2_GuardedWritersLeaveExistingDest ==
    (call.op \in WriteOps \ {"copyRasterToGeoTIFF"} /\ call.destBefore # "absent")
        => /\ ~call.invoked
           /\ call.dest \notin call.wrote
           /\ fs[call.dest] = call.destBefore

\* convertGMLToShapefile found a shapefile it had not written and returned its name
C2_Witness ==
    /\ call.op = "convertGMLToShapefile"
    /\ call.destBefore = "old"
    /\ call.result = "ok"
    /\ call.ret = ShpFilename(LayerName)
    /\ fs[ShpFilename(LayerName)] = "old"

\* C3 (as stated): writeBboxPolygonToShapefile and
\* writeCoordinatePairsToPointShapefile, called when <outputDir>/<layerName>.shp
\* already exists, fail with the already-exists error and leave that file and
\* all its sidecars unchanged.
C3_ExistingShapefileIsAlreadyExistsError ==
    [][(call'.op \in ShapefileWriters /\ call'.destBefore # "absent")
          => /\ call'.result = "Exception_already_exists"
             /\ call'.wrote = {}
             /\ fs' = fs]_vars

\* the arguments of a shapefile writer pass the tests made before the existence
\* test: the directory is writable and, for the point writer, there are as
\* many IDs as coordinates
PassesEarlierTests(c, dw) ==
    /\ dw
    /\ c.op = "writeCoordinatePairsToPointShapefile" => Len(c.args[4]) = Len(c.args[5])

\* C3 (amended): called when the .shp exists, both writers raise and leave the
\* file and its sidecars unchanged; the error is the already-exists error when
\* the output directory is writable and (point writer) len(pointIDs) equals
\* len(coordinates), the error of the earlier failing test otherwise.
C3_ExistingShapefileIsRefused ==
    [][(call'.op \in ShapefileWriters /\ call'.destBefore # "absent")
          => /\ call'.result # "ok"
             /\ call'.wrote = {}
             /\ fs' = fs
             /\ PassesEarlierTests(call', dirWritable)
                    <=> call'.result = "Exception_already_exists"]_vars

\* the point writer refused to overwrite a shapefile whose sidecars are all there
C3_Witness ==
    /\ call.op = "writeCoordinatePairsToPointShapefile"
    /\ call.destBefore = "old"
    /\ call.result = "Exception_already_exists"
    /\ \A p \in ShapefileParts(ShpFilename(LayerName)) : fs[p] # "absent"

\* the primary file and the sidecars that a delete of `path` is to remove
ShapefileGroup(path) == {path} \cup {SplitextStem(path) \o <<e>> : e \in {"dbf", "prj", "shx"}}
GeoTiffGroup(path) == {path, SplitextStem(path) \o <<"tif", "aux", "xml">>}

NoneExists(f, paths) == \A p \in paths \cap DOMAIN f : f[p] = "absent"

\* C4: for every subset of {primary, sidecars} present beforehand,
\* deleteShapefile (sidecars .dbf, .prj, .shx) and deleteGeoTiff (sidecar
\* <stem>.tif.aux.xml) return without error and afterwards neither the primary
\* nor any of those sidecars exists; a second delete of the same path also
\* returns without error and changes nothing.
C4_DeleteRemovesGroupAndRepeats ==
    [][(call'.op \in DeleteOps)
          => /\ call'.result = "ok"
             /\ call'.op = "deleteShapefile" => NoneExists(fs', ShapefileGroup(call'.args[1]))
             /\ call'.op = "deleteGeoTiff" => NoneExists(fs', GeoTiffGroup(call'.args[1]))
             /\ \A p \in ProjPaths : fs'[p] # fs[p] => p \in call'.wrote
             /\ call'.repeat # "no" => (fs' = fs /\ call'.wrote = {})]_vars

\* deleteShapefile removed two sidecars left behind without their primary file
C4_Witness ==
    /\ call.op = "deleteShapefile"
    /\ call.args[1] = ShpFilename(LayerName)
    /\ call.destBefore = "absent"
    /\ call.wrote = {<<LayerName, "dbf">>, <<LayerName, "shx">>}
    /\ call.result = "ok"

\* the envelopes of the features of a layer, each (minX, maxX, minY, maxY)
EnvelopesOf(layer) == {GetEnvelope(layer.features[i].geom) : i \in 1..Len(layer.features)}

\* C13: for every non-empty set of feature envelopes lying in
\* [-180,180] x [-90,90] (WGS84) and buffer 0, getBoundingBoxForShapefile
\* returns exactly the union box: minX/minY are the minimum and maxX/maxY the
\* maximum over the features' envelope corners.
C13_BoundingBoxIsUnion ==
    (/\ call.op = "getBoundingBoxForShapefile"
     /\ call.args[2] = 0
     /\ call.data # <<>>
     /\ call.data[1].srs = "EPSG:4326"
     /\ Len(call.data[1].features) > 0)
        => /\ call.result = "ok"
           /\ call.ret.minX = SetMin({e[1] : e \in EnvelopesOf(call.data[1])})
           /\ call.ret.maxX = SetMax({e[2] : e \in EnvelopesOf(call.data[1])})
           /\ call.ret.minY = SetMin({e[3] : e \in EnvelopesOf(call.data[1])})
           /\ call.ret.maxY = SetMax({e[4] : e \in EnvelopesOf(call.data[1])})
           /\ call.ret.srs = "EPSG:4326"

\* C14: getBoundingBoxForShapefile on a layer with no features fails with the
\* empty-layer error and returns no bounding box.
C14_EmptyLayerFails ==
    (/\ call.op = "getBoundingBoxForShapefile"
     /\ call.args[2] >= 0
     /\ call.data # <<>>
     /\ call.data[1].srs = "EPSG:4326"
     /\ Len(call.data[1].features) = 0)
        => (call.result = "Exception_empty_layer" /\ call.ret = "None")

\* `attr = v1 and attr = v2 and ...` over ids from position i on, every value
\* single-quoted if `quoted` and none otherwise
RECURSIVE ConjunctionOfEqualities(_, _, _, _)
ConjunctionOfEqualities(attr, ids, quoted, i) ==
    LET term == IF quoted THEN attr \o <<"=", "'">> \o ids[i] \o <<"'">>
                ELSE attr \o <<"=">> \o ids[i]
    IN  IF i = Len(ids) THEN term
        ELSE term \o <<" ", "a", "n", "d", " ">> \o ConjunctionOfEqualities(attr, ids, quoted, i + 1)

\* the reader was called on a readable data source for a layer that has the
\* field `args[3]`, with at least one ID: it built its attribute filter
BuiltFilterOnField(c) ==
    /\ c.op = "getCoordinatesOfPointsFromShapefile"
    /\ c.readable
    /\ c.data # <<>>
    /\ c.args[2] = c.data[1].name
    /\ c.data[1].fields # <<>>
    /\ c.data[1].fields[1].name = c.args[3]
    /\ Len(c.args[4]) > 0

\* C15: for every non-empty list of requested IDs, the attribute filter built
\* by getCoordinatesOfPointsFromShapefile is the conjunction
\* `attr = v1 and attr = v2 and ...` over all IDs in order, in which every
\* value is single-quoted when the ID attribute is string-typed and no value is
\* quoted when it is numeric.
C15_FilterIsQuotedConjunction ==
    BuiltFilterOnField(call)
        => call.whereFilter =
              ConjunctionOfEqualities(call.args[3], call.args[4],
                                      call.data[1].fields[1].type = "OFTString", 1)

\* the features of the layer whose ID equals every requested ID
FeaturesWithEveryID(layer, ids) ==
    SelectSeq(layer.features,
              LAMBDA ft : \A i \in 1..Len(ids) :
                  IF layer.fields[1].type = "OFTString" THEN ft.attrs[1] = ids[i]
                  ELSE ft.attrs[1] = ParseNat(ids[i]))

\* C16: getCoordinatesOfPointsFromShapefile never returns an empty list: when
\* the named layer is missing it fails with layer-not-found, when no feature
\* matches the filter (OGR accepts the filter and it selects nothing) it fails
\* with no-matching-feature, and a normal return carries one (lon, lat) pair
\* per matching feature.
C16_NeverReturnsEmptyList ==
    call.op = "getCoordinatesOfPointsFromShapefile"
        => /\ call.result = "ok" => Len(call.ret) > 0
           /\ call.result # "ok" => call.ret = <<>>
           /\ (call.readable /\ call.data # <<>> /\ call.args[2] # call.data[1].name)
                  => call.result = "Exception_layer_not_found"
           /\ (/\ BuiltFilterOnField(call)
               /\ call.data[1].srs = "EPSG:4326"
               /\ FilterCompiles(call.data[1], call.whereFilter)
               /\ FeaturesWithEveryID(call.data[1], call.args[4]) = <<>>)
                  => call.result = "Exception_no_features_found"
           /\ call.result = "ok"
                  => LET found == FeaturesWithEveryID(call.data[1], call.args[4])
                     IN  call.ret = [i \in 1..Len(found) |-> found[i].geom[1]]

\* two gages carry the requested ID and the reader returned both pairs
C16_Witness ==
    /\ call.op = "getCoordinatesOfPointsFromShapefile"
    /\ call.result = "ok"
    /\ call.args[4] = <<G1>>
    /\ call.ret = << <<-77, 38>>, <<-76, 39>> >>

\* C17: after writeCoordinatePairsToPointShapefile(dir, layer, attr, [id],
\* [(lon, lat)]) succeeds, getCoordinatesOfPointsFromShapefile on the written
\* file with the same layer, attribute and single ID returns exactly one pair,
\* equal to (lon, lat).
C17_WriteThenReadRecoversPoint ==
    [][(/\ call.op = "writeCoordinatePairsToPointShapefile"
        /\ call.result = "ok"
        /\ Len(call.args[4]) = 1
        /\ call'.op = "getCoordinatesOfPointsFromShapefile"
        /\ call'.readable
        /\ call'.args[2] = call.args[2]
        /\ call'.args[3] = call.args[3]
        /\ call'.args[4] = call.args[4])
          => /\ call'.result = "ok"
             /\ Len(call'.ret) = 1
             /\ call'.ret[1] = call.args[5][1]]_vars

\* the gage written by the point writer into an empty directory was read back
C17_Witness ==
    /\ call.op = "getCoordinatesOfPointsFromShapefile"
    /\ fs[ShpFilename(LayerName)] = "new"
    /\ shpData # <<>>
    /\ shpData[1].fields # <<>>
    /\ call.args[4] = <<G1>>
    /\ call.result = "ok"
    /\ call.ret = << <<-76, 39>> >>

\* C18 (as stated): the polygon ring written by writeBboxPolygonToShapefile has
\* its four corners in the order of the area computation of
\* calculateBoundingBoxAreaSqMeters: (minX,minY) SW, (maxX,minY) SE,
\* (maxX,maxY) NE, (minX,maxY) NW.
C18_RingInAreaOrder ==
    (call.op = "writeBboxPolygonToShapefile" /\ call.result = "ok")
        => /\ Len(shpData) = 1
           /\ Len(shpData[1].features) = 1
           /\ shpData[1].features[1].geom = AreaPolygonPoints(call.args[1])

\* C18 (amended): the ring has the four corners of the area computation in the
\* opposite direction: (minX,minY) SW, (minX,maxY) NW, (maxX,maxY) NE,
\* (maxX,minY) SE.
C18_RingInReverseAreaOrder ==
    (call.op = "writeBboxPolygonToShapefile" /\ call.result = "ok")
        => /\ Len(shpData) = 1
           /\ Len(shpData[1].features) = 1
           /\ LET ring == shpData[1].features[1].geom
                  area == AreaPolygonPoints(call.args[1])
              IN  /\ Len(ring) = 4
                  /\ ring[1] = area[1]
                  /\ ring[2] = area[4]
                  /\ ring[3] = area[3]
                  /\ ring[4] = area[2]
                  /\ ring[1] = <<call.args[1].minX, call.args[1].minY>>
                  /\ ring[2] = <<call.args[1].minX, call.args[1].maxY>>
                  /\ ring[3] = <<call.args[1].maxX, call.args[1].maxY>>
                  /\ ring[4] = <<call.args[1].maxX, call.args[1].minY>>

\* the polygon of the study area was written and its second corner is the NW one
C18_Witness ==
    /\ call.op = "writeBboxPolygonToShapefile"
    /\ call.result = "ok"
    /\ call.args[1] = StudyAreaBox
    /\ fs[ShpFilename(LayerName)] = "new"
    /\ shpData[1].features[1].geom[2] = <<-77, 40>>

\* C19: writeCoordinatePairsToPointShapefile with len(pointIDs) !=
\* len(coordinates) fails with the dimension-mismatch error before touching
\* the file system: no shapefile or sidecar is created, whatever the state of
\* outputDir.
C19_LengthMismatchFailsFirst ==
    [][(/\ call'.op = "writeCoordinatePairsToPointShapefile"
        /\ Len(call'.args[4]) # Len(call'.args[5]))
          => /\ call'.result = "AssertionError"
             /\ call'.wrote = {}
             /\ fs' = fs
             /\ shpData' = shpData]_vars

\* two IDs with one coordinate pair were refused for a path that is no directory
C19_Witness ==
    /\ call.op = "writeCoordinatePairsToPointShapefile"
    /\ call.args[1] = "nodir"
    /\ Len(call.args[4]) = 2
    /\ Len(call.args[5]) = 1
    /\ call.result = "AssertionError"

\* C20 (as stated): resampleRaster called with trX <= 0 or trY <= 0 fails with
\* the invalid-resolution error, never invokes the warp tool and creates no
\* output file, whether or not the output file already exists.
C20_BadResolutionIsValueError ==
    [][(call'.op = "resampleRaster" /\ (call'.args[4][1] <= 0 \/ call'.args[4][2] <= 0))
          => /\ call'.result \in {"ValueError_trX", "ValueError_trY"}
             /\ ~call'.invoked
             /\ call'.wrote = {}
             /\ fs' = fs]_vars

\* C20 (amended): such a call raises, never invokes the warp tool and creates
\* no file, whether or not the output exists; the error is the
\* invalid-resolution error exactly when the tests made before it pass: the
\* gdalwarp binary is executable and outputDir is a writable directory.
C20_BadResolutionIsRefused ==
    [][(call'.op = "resampleRaster" /\ (call'.args[4][1] <= 0 \/ call'.args[4][2] <= 0))
          => /\ call'.result # "ok"
             /\ ~call'.invoked
             /\ call'.wrote = {}
             /\ fs' = fs
             /\ (/\ call'.args[1]["PATH_OF_GDAL_WARP"] = "executable"
                 /\ call'.args[2] = "proj"
                 /\ dirWritable)
                    <=> call'.result \in {"ValueError_trX", "ValueError_trY"}]_vars

\* a resolution of 0 was refused although the output raster was already there
C20_Witness ==
    /\ call.op = "resampleRaster"
    /\ call.args[4][1] = 0
    /\ call.destBefore = "old"
    /\ call.result = "ValueError_trX"
    /\ fs[RasterName] = "old"

(***************************************************************************)
(* The external tools: exit status, executable test, unreadable input.     *)
(***************************************************************************)
ToolOps == GuardedOps \cup {"copyRasterToGeoTIFF"}

\* the option of the section GDAL/OGR an operation reads its tool's path from
ToolOption(op) ==
    CASE op \in {"resampleRaster", "extractTileFromRasterByRasterExtent"} -> "PATH_OF_GDAL_WARP"
      [] op \in {"extractTileFromRaster", "copyRasterToGeoTIFF"} -> "PATH_OF_GDAL_TRANSLATE"
      [] OTHER -> "PATH_OF_OGR2OGR"

\* C22: in every operation that wraps an external tool, a non-zero exit status
\* of the tool makes the operation fail with the command-failed error; it
\* never returns normally (convertGMLToShapefile returns no file name) after a
\* failed invocation.
C22_ToolFailureIsFatal ==
    (call.op \in ToolOps /\ call.invoked /\ call.returnCode # 0)
        => /\ call.result = "Exception_command_failed"
           /\ call.ret = "None"

\* ogr2ogr exited non-zero leaving part of the shapefile, and the conversion raised
C22_Witness ==
    /\ call.op = "convertGMLToShapefile"
    /\ call.invoked
    /\ call.returnCode = 1
    /\ fs[ShpFilename(LayerName)] = "partial"
    /\ call.result = "Exception_command_failed"

\* C23: every operation that invokes an external tool tests that the
\* configured tool path is executable before the invocation; called with valid
\* arguments and a path that is not executable it fails with the
\* not-executable error (IOError EACCES) without invoking anything.
C23_ToolPathCheckedBeforeInvocation ==
    (/\ call.op \in ToolOps
     /\ call.op = "extractTileFromRasterByRasterExtent" => call.args[5] \in RASTER_RESAMPLE_METHOD)
        => /\ call.invoked => IsExecutable(call.args[1][ToolOption(call.op)])
           /\ ~IsExecutable(call.args[1][ToolOption(call.op)])
                 => call.result = "IOError_EACCES_cmd" /\ ~call.invoked

\* C24: copyRasterToGeoTIFF called with an input raster that is not readable
\* (tool executable, output directory a writable directory) fails with
\* IOError EACCES and does not invoke gdal_translate.
C24_UnreadableInputIsIOError ==
    (/\ call.op = "copyRasterToGeoTIFF"
     /\ call.args[3] = "unreadable"
     /\ IsExecutable(call.args[1]["PATH_OF_GDAL_TRANSLATE"])
     /\ IsDir(call.args[2])
     /\ dirWritable)
        => /\ call.result = "IOError_EACCES_input"
           /\ ~call.invoked

\* C28: if the tool of a guarded operation fails after a file has appeared at
\* the output path, the next call with the same arguments, and every call of a
\* guarded operation while that file is there, invokes no tool and leaves the
\* file as it is; the call with the same arguments returns normally.  If the
\* failure left no file at the output path, the next call with the same
\* arguments invokes the tool again.
C28_PartialOutputIsKept ==
    [][/\ (/\ call.op \in GuardedOps
           /\ call.result = "Exception_command_failed"
           /\ fs[call.dest] # "absent"
           /\ call'.op = call.op
           /\ call'.args = call.args)
             => /\ ~call'.invoked
                /\ call'.result = "ok"
                /\ fs' = fs
       /\ (call'.op \in GuardedOps /\ call'.destBefore = "partial")
             => /\ ~call'.invoked
                /\ fs' = fs
                /\ (call.op = call'.op /\ call.args = call'.args /\ call.result = "ok")
                      => call'.result = "ok"
       /\ (/\ call.op \in GuardedOps
           /\ call.result = "Exception_command_failed"
           /\ fs[call.dest] = "absent"
           /\ call'.op = call.op
           /\ call'.args = call.args)
             => call'.invoked]_vars

\* gdal_translate failed leaving part of the tile; the same call, made again,
\* returned normally without running it, and the partial tile is still there
C28_Witness ==
    /\ call.op = "extractTileFromRaster"
    /\ call.destBefore = "partial"
    /\ call.result = "ok"
    /\ ~call.invoked
    /\ fs[RasterName] = "partial"

\* C26: every operation that opens a data source has released the handle by
\* the time it exits, on normal return and on every error exit (layer not
\* found, no matching feature, attribute filter rejected).
C26_HandleReleasedAtExit ==
    (/\ call.op \in {"getCoordinatesOfPointsFromShapefile", "getBoundingBoxForShapefile"}
     /\ call.poDS # "never opened"
     /\ call.result \in {"ok", "Exception_layer_not_found", "Exception_feature_not_found",
                         "Exception_no_features_found"})
        => call.poDS = "released"

(***************************************************************************)
(* Resample methods of the two copies of the utility module, and the       *)
(* functions that describe a raster.                                       *)
(***************************************************************************)
\* RASTER_RESAMPLE_METHOD of src/ecohydroworkflowlib/spatialdata/utils.py
WORKFLOWLIB_RASTER_RESAMPLE_METHOD == {"near", "bilinear", "cubic", "cubicspline", "lanczos"}

\* resampleRaster of ecohydroworkflowlib: the statements of the ecohydrolib
\* function, with the method tested against its own module's list
ecohydroworkflowlib_resampleRaster(f, dw, config, outputDir, outRasterFilename, trX, trY, resampleMethod, outcome) ==
    IF ~IsExecutable(config["PATH_OF_GDAL_WARP"]) THEN Raise(f, "IOError_EACCES_cmd")
    ELSE IF ~IsDir(outputDir) THEN Raise(f, "IOError_ENOTDIR")
    ELSE IF ~dw THEN Raise(f, "IOError_EACCES_dir")
    ELSE IF trX <= 0 THEN Raise(f, "ValueError_trX")
    ELSE IF trY <= 0 THEN Raise(f, "ValueError_trY")
    ELSE IF resampleMethod \notin WORKFLOWLIB_RASTER_RESAMPLE_METHOD THEN Raise(f, "AssertionError")
    ELSE IF ~Exists(f, outputDir, outRasterFilename)
         THEN LET sys == System(f, config["PATH_OF_GDAL_WARP"], outRasterFilename, {}, outcome)
              IN  IF sys.returnCode # 0
                      THEN Ran(sys, "Exception_command_failed", "None")
                      ELSE Ran(sys, "ok", "None")
    ELSE Outcome(f, "ok", "None", FALSE, {})

\* getDimensionsForRaster: (columns, rows), both None for a file gdal.Open
\* cannot open
getDimensionsForRaster(kind) ==
    CASE kind = "unreadable" -> [result |-> "IOError_EACCES_input", ret |-> "None"]
      [] kind = "junk" -> [result |-> "ok", ret |-> <<"None", "None">>]
      [] OTHER -> [result |-> "ok", ret |-> <<"columns", "rows">>]

\* the tuple getSpatialReferenceForRaster returns for a raster it can open
SpatialReferenceTuple ==
    <<"pixelWidth", "pixelHeight", "linearUnitsName", "linearUnitsConversionFactor",
      "pszProjection", "epsgStr">>

AllMethodArgs == RASTER_RESAMPLE_METHOD \cup {"nearest"}
ModuleArgs == {"ecohydrolib", "ecohydroworkflowlib"}

RasterFound == [p \in ProjPaths |-> IF p = RasterName THEN "old" ELSE "absent"]

InitRaster ==
    /\ fs \in {[p \in ProjPaths |-> "absent"], RasterFound}
    /\ dirWritable \in BOOLEAN
    /\ bbox = StudyAreaBox
    /\ nbuf = 0
    /\ call = NoCall
    /\ pc = <<>>
    /\ metadata = {}
    /\ shpData = <<>>

CallResampleRasterOfModule ==
    \E module \in ModuleArgs, config \in ConfigArgs, dir \in DirArgs, tr \in {<<0, 30>>, <<30, 30>>},
       method \in AllMethodArgs, outcome \in {"ok", "fail"} :
        LET r == IF module = "ecohydrolib"
                     THEN resampleRaster(fs, dirWritable, config, dir, RasterName,
                                         tr[1], tr[2], method, outcome)
                 ELSE ecohydroworkflowlib_resampleRaster(fs, dirWritable, config, dir,
                                         RasterName, tr[1], tr[2], method, outcome)
        IN  /\ fs' = r.fs
            /\ call' = [op |-> "resampleRaster", module |-> module,
                        args |-> <<config, dir, RasterName, tr, method>>,
                        result |-> r.result, invoked |-> r.invoked]
            /\ UNCHANGED <<pc, metadata, dirWritable, bbox, nbuf, shpData>>

CallExtractTileWithMethod ==
    \E config \in ConfigArgs, dir \in DirArgs, kinds \in InputKindArgs,
       method \in AllMethodArgs, outcome \in {"ok", "fail"} :
        LET r == extractTileFromRasterByRasterExtent(fs, dirWritable, config, dir, kinds[1],
                                                     kinds[2], RasterName, method, outcome)
        IN  /\ fs' = r.fs
            /\ call' = [op |-> "extractTileFromRasterByRasterExtent", module |-> "ecohydrolib",
                        args |-> <<config, dir, kinds, RasterName, method>>,
                        result |-> r.result, invoked |-> r.invoked]
            /\ UNCHANGED <<pc, metadata, dirWritable, bbox, nbuf, shpData>>

CallGetSpatialReferenceForRaster ==
    \E kind \in RasterKinds :
        /\ call' = [op |-> "getSpatialReferenceForRaster", module |-> "ecohydrolib",
                    args |-> <<kind>>,
                    result |-> getSpatialReferenceForRaster(kind),
                    ret |-> IF getSpatialReferenceForRaster(kind) = "ok"
                                THEN SpatialReferenceTuple ELSE "None"]
        /\ UNCHANGED <<pc, metadata, fs, dirWritable, bbox, nbuf, shpData>>

CallGetDimensionsForRaster ==
    \E kind \in RasterKinds :
        /\ call' = [op |-> "getDimensionsForRaster", module |-> "ecohydrolib",
                    args |-> <<kind>>,
                    result |-> getDimensionsForRaster(kind).result,
                    ret |-> getDimensionsForRaster(kind).ret]
        /\ UNCHANGED <<pc, metadata, fs, dirWritable, bbox, nbuf, shpData>>

CallDeleteRaster ==
    LET r == deleteGeoTiff(fs, RasterName)
    IN  /\ fs' = r.fs
        /\ call' = [op |-> "deleteGeoTiff", module |-> "ecohydrolib", args |-> <<RasterName>>,
                    result |-> r.result, invoked |-> FALSE]
        /\ UNCHANGED <<pc, metadata, dirWritable, bbox, nbuf, shpData>>

NextRaster ==
    \/ CallResampleRasterOfModule
    \/ CallExtractTileWithMethod
    \/ CallGetSpatialReferenceForRaster
    \/ CallGetDimensionsForRaster
    \/ CallDeleteRaster

SpecRaster == InitRaster /\ [][NextRaster]_vars

\* the seven resample methods
SevenMethods == {"near", "bilinear", "cubic", "cubicspline", "lanczos", "average", "mode"}

\* the method is the only argument that may be wrong: the tool is executable,
\* the output directory is a writable directory, the resolution is positive
OnlyMethodInQuestion(c) ==
    /\ IsExecutable(c.args[1]["PATH_OF_GDAL_WARP"])
    /\ IsDir(c.args[2])
    /\ dirWritable
    /\ c.op = "resampleRaster" => (c.args[4][1] > 0 /\ c.args[4][2] > 0)

\* C21: resampleRaster and extractTileFromRasterByRasterExtent accept each of
\* the seven resample methods (near, bilinear, cubic, cubicspline, lanczos,
\* average, mode) and reject every other method with the invalid-method error
\* (AssertionError) before invoking the tool, in both copies of the module.
C21_SevenMethodsAccepted ==
    (/\ call.op \in {"resampleRaster", "extractTileFromRasterByRasterExtent"}
     /\ OnlyMethodInQuestion(call))
        => /\ call.args[5] \in SevenMethods => call.result # "AssertionError"
           /\ call.args[5] \notin SevenMethods
                 => call.result = "AssertionError" /\ ~call.invoked

\* C25: getSpatialReferenceForRaster and getDimensionsForRaster fail with the
\* unreadable error (IOError EACCES) both for a file that is not
\* permission-readable and for a readable file that cannot be opened as a
\* raster; they never return a tuple with unset (None) fields and never fail
\* with another error.
C25_DescribeFailsUnreadable ==
    call.op \in {"getSpatialReferenceForRaster", "getDimensionsForRaster"}
        => /\ call.args[1] \in {"unreadable", "junk"} => call.result = "IOError_EACCES_input"
           /\ call.result \in {"ok", "IOError_EACCES_input"}
           /\ call.result = "ok" => \A i \in 1..Len(call.ret) : call.ret[i] # "None"

(***************************************************************************)
(* Concurrent invocations of resampleRaster on one output path.            *)
(*                                                                         *)
(* An invocation is "idle" (not started, or returned), "checked" (it found *)
(* no file at os.path.exists and has not yet called os.system) or          *)
(* "running" (gdalwarp was started and has not exited).  The arguments are *)
(* valid: the tests before os.path.exists pass.  `call` carries, besides   *)
(* the last step, the number of gdalwarp runs started and the number that  *)
(* left a file since the output path was last deleted, and whether two     *)
(* invocations were in progress at once since then.                        *)
(***************************************************************************)
\* number of invocations that may be in progress at once
NumInvocations == 2
\* gdalwarp runs counted between two deletions of the output
MaxRuns == 3

Invocations == 1..NumInvocations

InProgress(positions) == {p \in DOMAIN positions : positions[p] # "idle"}

\* the guard that lets every invocation through
GuardPasses_Always(f, outputDir, outRasterFilename) == TRUE

\* if not os.path.exists(outRasterFilepath):
GuardPasses(f, outputDir, outRasterFilename) == ~Exists(f, outputDir, outRasterFilename)

InitRace ==
    /\ fs \in {[p \in ProjPaths |-> "absent"], RasterFound}
    /\ dirWritable = TRUE
    /\ bbox = StudyAreaBox
    /\ nbuf = 0
    /\ call = [op |-> "none", runs |-> 0, written |-> 0, overlapped |-> FALSE]
    /\ pc = [p \in Invocations |-> "idle"]
    /\ metadata = {}
    /\ shpData = <<>>

\* resampleRaster up to its existence test: it returns silently if the output
\* is there, and goes on to build the command if it is not
EnterResampleRaster(p) ==
    /\ pc[p] = "idle"
    /\ IF GuardPasses(fs, ProjectDir, RasterName)
           THEN /\ pc' = [pc EXCEPT ![p] = "checked"]
                /\ call' = [call EXCEPT !.op = "os.path.exists: False",
                                        !.overlapped = @ \/ InProgress(pc) # {}]
           ELSE /\ pc' = pc
                /\ call' = [call EXCEPT !.op = "os.path.exists: True"]
    /\ UNCHANGED <<fs, dirWritable, bbox, nbuf, shpData, metadata>>

\* returnCode = os.system(gdalCommand): gdalwarp starts
StartWarp(p) ==
    /\ pc[p] = "checked"
    /\ call.runs < MaxRuns
    /\ pc' = [pc EXCEPT ![p] = "running"]
    /\ call' = [call EXCEPT !.op = "os.system", !.runs = @ + 1]
    /\ UNCHANGED <<fs, dirWritable, bbox, nbuf, shpData, metadata>>

\* gdalwarp exits and resampleRaster returns or raises
FinishWarp(p) ==
    /\ pc[p] = "running"
    /\ \E outcome \in ToolOutcomes :
         LET sys == System(fs, "executable", RasterName, {}, outcome)
         IN  /\ fs' = sys.fs
             /\ call' = [call EXCEPT !.op = IF sys.returnCode = 0 THEN "return" ELSE "raise",
                                     !.written = IF sys.wrote # {} THEN @ + 1 ELSE @]
    /\ pc' = [pc EXCEPT ![p] = "idle"]
    /\ UNCHANGED <<dirWritable, bbox, nbuf, shpData, metadata>>

\* deleteGeoTiff on the output path, between or during invocations
DeleteOutput ==
    /\ Exists(fs, ProjectDir, RasterName)
    /\ fs' = deleteGeoTiff(fs, RasterName).fs
    /\ call' = [op |-> "deleteGeoTiff",
                runs |-> Cardinality({p \in Invocations : pc[p] = "running"}),
                written |-> 0,
                overlapped |-> Cardinality(InProgress(pc)) >= 2]
    /\ UNCHANGED <<pc, dirWritable, bbox, nbuf, shpData, metadata>>

NextRace ==
    \/ \E p \in Invocations : EnterResampleRaster(p)
    \/ \E p \in Invocations : StartWarp(p)
    \/ \E p \in Invocations : FinishWarp(p)
    \/ DeleteOutput

SpecRace == InitRace /\ [][NextRace]_vars

\* C27 (as stated): two concurrent invocations can both pass the existence
\* test and both run the tool on the same output path; under strictly
\* sequential invocation the tool is invoked at most once per output path
\* until the output is deleted.
C27_SequentialRunsAtMostOnce ==
    ~call.overlapped => call.runs <= 1

\* C27 (amended): under strictly sequential invocation the tool is never
\* started while a file is at the output path, and at most one run leaves a
\* file there until the output is deleted; a run that failed leaving no file
\* is followed by another run at the next invocation.
C27_SequentialWritesAtMostOnce ==
    ~call.overlapped
        => /\ call.written <= 1
           /\ \A p \in Invocations : pc[p] = "running" => fs[RasterName] = "absent"
           /\ call.runs > 1 => call.written <= call.runs - 1

\* both invocations found no output and both started gdalwarp on the same path
C27_Witness ==
    /\ \A p \in Invocations : pc[p] = "running"
    /\ call.runs = NumInvocations
    /\ fs[RasterName] = "absent"

(***************************************************************************)
(* The RegisterGage driver (src/bin/RegisterGage.py).                      *)
(*                                                                         *)
(* The script imports deleteShapefile, getCoordinatesOfPointsFromShapefile,*)
(* writeCoordinatePairsToPointShapefile and isCoordinatePairInBoundingBox  *)
(* by name; they are the functions of those names modelled above.  The     *)
(* metadata store is the set of the <<section, key>> entries written to    *)
(* it.  The gage shapefile of the project directory is <LayerName>.shp     *)
(* (outfile = "gage"); the input shapefile lies outside the project        *)
(* directory.                                                              *)
(***************************************************************************)
GageIDAttr == <<"g", "a", "g", "e", "_", "i", "d">>

\* the entries written after the gage shapefile
GageEntries ==
    {<<"manifest", "gage">>, <<"study_area", "gage_id_attr">>, <<"study_area", "gage_id">>,
     <<"study_area", "gage_lat_wgs84">>, <<"study_area", "gage_lon_wgs84">>}

\* the state a run of the script leaves: file system, project shapefile's data,
\* metadata, and how it ended
DriverExit(f, data, meta, result) == [fs |-> f, shpData |-> data, metadata |-> meta, result |-> result]

\* The module body of RegisterGage.py from the test of the project directory
\* on.  The study area's bbox_wgs84 is b; the configuration file is readable.
RegisterGage(f, dw, data, meta, b, projectDir, gageReadable, inData, layerName, idAttribute, idValue) ==
    IF ~IsDir(projectDir) THEN DriverExit(f, data, meta, "IOError_ENOTDIR")
    ELSE IF ~dw THEN DriverExit(f, data, meta, "IOError_EACCES_dir")
    ELSE IF ~gageReadable THEN DriverExit(f, data, meta, "IOError_EACCES_input")
    ELSE LET outFilename == ShpFilename(LayerName)
             deleted == IF Exists(f, projectDir, outFilename)
                            THEN deleteShapefile(f, outFilename).fs ELSE f
             dataNow == IF Exists(f, projectDir, outFilename) THEN <<>> ELSE data
             gageIDs == <<idValue>>
             coords == getCoordinatesOfPointsFromShapefile(TRUE, FALSE, inData, layerName,
                                                           idAttribute, gageIDs)
         IN  IF coords.result # "ok" THEN DriverExit(deleted, dataNow, meta, coords.result)
             ELSE IF ~isCoordinatePairInBoundingBox(b, coords.ret[1]).ret
                 THEN DriverExit(deleted, dataNow, meta, "SystemExit")
             ELSE LET w == writeCoordinatePairsToPointShapefile(deleted, dw, projectDir, LayerName,
                                            GageIDAttr, gageIDs, <<coords.ret[1]>>)
                  IN  IF w.result # "ok" THEN DriverExit(w.fs, dataNow, meta, w.result)
                      ELSE DriverExit(w.fs, PointShapefile(LayerName, GageIDAttr, gageIDs, <<coords.ret[1]>>),
                                      meta \cup GageEntries, "ok")

GageIDArgs == {G1, G2, N7}

\* the input gage shapefiles: one that cannot be opened, and layers of one gage
GageFileArgs == {<<>>} \cup {ds \in DataSourceArgs : Len(ds[1].features) = 1}

InitGage ==
    /\ fs \in {NoFiles, ShapefileFound}
    /\ dirWritable \in BOOLEAN
    /\ bbox \in ShpBoxArgs
    /\ nbuf = 0
    /\ call = NoCall
    /\ pc = <<>>
    /\ metadata \in {{}, GageEntries}
    /\ shpData = IF fs = NoFiles THEN <<>> ELSE SurveyedGages

RunRegisterGage ==
    \E projectDir \in DirArgs, gageReadable \in BOOLEAN, inData \in GageFileArgs,
       layerName \in {LayerName, "streams"}, idValue \in GageIDArgs :
        LET r == RegisterGage(fs, dirWritable, shpData, metadata, bbox, projectDir, gageReadable,
                              inData, layerName, PointIDAttr, idValue)
        IN  /\ fs' = r.fs
            /\ shpData' = r.shpData
            /\ metadata' = r.metadata
            /\ call' = [op |-> "RegisterGage",
                        args |-> <<projectDir, inData, layerName, PointIDAttr, idValue>>,
                        result |-> r.result]
            /\ UNCHANGED <<pc, dirWritable, bbox, nbuf>>

\* the gage shapefile is removed by hand between runs
RemoveGageShapefile ==
    LET r == deleteShapefile(fs, ShpFilename(LayerName))
    IN  /\ fs' = r.fs
        /\ shpData' = <<>>
        /\ call' = [op |-> "deleteShapefile", args |-> <<ShpFilename(LayerName)>>,
                    result |-> r.result]
        /\ UNCHANGED <<pc, metadata, dirWritable, bbox, nbuf>>

NextGage == RunRegisterGage \/ RemoveGageShapefile

SpecGage == InitGage /\ [][NextGage]_vars

\* C30: if the RegisterGage driver aborts because no feature matches the gage
\* ID or because the gage lies outside the study area's bounding box, the
\* project directory is as it was before the run: a gage shapefile (with its
\* sidecars) that was there is still there, and no manifest or study-area
\* entry has been written.
C30_AbortLeavesProjectAsItWas ==
    [][(/\ call'.op = "RegisterGage"
        /\ call'.result \in {"Exception_no_features_found", "Exception_feature_not_found",
                             "SystemExit"})
          => /\ fs' = fs
             /\ metadata' = metadata]_vars

====
